---- MODULE Spec2Model ----
(***************************************************************************)
(* Analysis orchestration engine of the "Talk to Your Data" agent:         *)
(* the LangGraph workflow (pipeline/graph.py, pipeline/nodes/*.py), its    *)
(* two entry points, the thread-keyed MemorySaver checkpointer, and the    *)
(* chat service with its Redis analysis cache.                             *)
(*                                                                         *)
(* Python values are encoded as follows.                                   *)
(*   Optional[T]   None is <<>>, a value v is <<v>>.                       *)
(*   text          a sequence of lines, each line a string.                *)
(*   code text     a sequence of source lines (CodeLines below).           *)
(*   dict update   a record holding exactly the keys the node returns.     *)
(***************************************************************************)
EXTENDS Integers, Sequences, FiniteSets, TLC

VARIABLES
    st,        \* channel values of the running graph (GraphState)
    pc,        \* next node to run, or "idle" / "raised" / "end"
    call,      \* arguments and entry point of the invocation in progress
    exc,       \* message of the exception that left the graph, if any
    ret,       \* what the entry point handed to its caller
    saved,     \* MemorySaver: thread_id -> checkpointed reducer channels
    chunk,     \* the update streamed by the node that ran last
    trace,     \* nodes that ran during the invocation in progress
    ran,       \* what exec() was given by execute_code in this invocation
    accepted,  \* code that validate_code last accepted in this invocation
    redis,       \* the cache backend: key -> stored value
    redis_up,    \* whether operations on the cache backend succeed
    files_table, \* committed rows of uploaded_files: session -> file ids
    pm,          \* the process_message call in progress
    reply,       \* what process_message last returned
    messages,    \* rows of chat_messages, oldest first
    analyses,    \* number of rows of analysis_results
    req,         \* the upload / delete request in progress
    overlap,     \* history: a request was in progress during the current call
    ratelimit,   \* the counter key of the rate limiter and its time to live
    rl_pc,       \* caller -> position of its check_rate_limit call
    rl_result,   \* caller -> what its last check_rate_limit call returned
    rl_hist      \* history of the counter key since it was created

graphVars == <<st, pc, call, exc, ret, saved, chunk, trace, ran, accepted>>

chatVars == <<redis, redis_up, files_table, pm, reply, messages, analyses, req, overlap>>

rateVars == <<ratelimit, rl_pc, rl_result, rl_hist>>

vars == <<graphVars, chatVars, rateVars>>

(***************************************************************************)
(* Bounds                                                                  *)
(***************************************************************************)
\* a further invocation on a thread is modelled while the node_history
\* saved for that thread is at most this long
MaxCarried == 3

(***************************************************************************)
(* Python helpers                                                          *)
(***************************************************************************)
None == <<>>
Some(v) == <<v>>
IsNone(o) == o = <<>>
Val(o) == o[1]

\* dict.get(key, default) on an update / oracle answer held as a record
Get(d, k, dflt) == IF k \in DOMAIN d THEN d[k] ELSE dflt

Range(s) == {s[i] : i \in 1..Len(s)}

Take(s, n) == SubSeq(s, 1, IF Len(s) < n THEN Len(s) ELSE n)

\* [x for x in s if x in allowed], for sequences
SelectIn(s, allowed) == SelectSeq(s, LAMBDA x : x \in allowed)

\* index of the first element of s in `wanted`, Len(s) + 1 when none is
FirstIndex(s, wanted) ==
    IF \E i \in 1..Len(s) : s[i] \in wanted
    THEN CHOOSE i \in 1..Len(s) :
            s[i] \in wanted /\ \A j \in 1..(i - 1) : s[j] \notin wanted
    ELSE Len(s) + 1

\* index of the last element of s in `wanted`, 0 when none is
LastIndex(s, wanted) ==
    IF \E i \in 1..Len(s) : s[i] \in wanted
    THEN CHOOSE i \in 1..Len(s) :
            s[i] \in wanted /\ \A j \in (i + 1)..Len(s) : s[j] \notin wanted
    ELSE 0

(***************************************************************************)
(* Inputs                                                                  *)
(***************************************************************************)
Sessions == {"s1"}

\* a query is a sequence of words; " " stands for leading/trailing blanks
Queries == { <<" ">>, <<" ", "Revenue", "TREND", " ">> }

IsBlank(w) == w = " "

\* str.strip(): drop the leading and the trailing blanks
Strip(q) ==
    SubSeq(q, FirstIndex(q, Range(q) \ {" "}), LastIndex(q, Range(q) \ {" "}))

\* str.lower() on the words the model uses
LowerWord(w) ==
    CASE w = "TREND"   -> "trend"
      [] w = "Revenue" -> "revenue"
      [] OTHER         -> w

FileNov == [id |-> 1, filename |-> "sales_nov_2024.csv"]
FileDec == [id |-> 2, filename |-> "sales_dec_2024.csv"]

FileLists == { <<>>, <<FileNov, FileDec>> }

Filenames(files) == [i \in 1..Len(files) |-> files[i].filename]

(***************************************************************************)
(* GraphState and its channels  (pipeline/state.py)                        *)
(***************************************************************************)
\* channels declared Annotated[List[str], operator.add]
ReducerChannels == {"node_history", "errors"}

create_initial_state(session_id, user_query, available_files, chat_history) ==
    [ session_id       |-> session_id,
      user_query       |-> user_query,
      chat_history     |-> chat_history,
      available_files  |-> available_files,
      intent           |-> None,
      operation_type   |-> None,
      plan             |-> None,
      files_to_use     |-> <<>>,
      alignment_info   |-> None,
      generated_code   |-> None,
      code_valid       |-> FALSE,
      validation_errors |-> <<>>,
      execution_result |-> None,
      result_data      |-> None,
      trend_insights   |-> None,
      explanation      |-> None,
      recommendations  |-> <<>>,
      final_response   |-> None,
      current_node     |-> "start",
      node_history     |-> <<>>,
      errors           |-> <<>>,
      retry_count      |-> 0 ]

StateFields == DOMAIN create_initial_state("s1", <<>>, <<>>, <<>>)

\* how the graph folds a node's returned dict (or the input of an
\* invocation) into the channel values: a reducer channel appends, every
\* other channel takes the last value written
ApplyWrites(s, upd) ==
    [ (upd @@ s) EXCEPT
        !.node_history = s.node_history \o Get(upd, "node_history", <<>>),
        !.errors       = s.errors \o Get(upd, "errors", <<>>) ]

\* channel values a thread has before its first invocation
EmptyThread == [node_history |-> <<>>, errors |-> <<>>]

(***************************************************************************)
(* Generated code and the validator  (pipeline/nodes/code.py)              *)
(***************************************************************************)
FORBIDDEN_PATTERNS ==
    << "import os", "import sys", "import subprocess", "import shutil",
       "__import__", "eval(", "exec(", "os.system", "os.popen",
       "subprocess.", "shutil.", ".to_csv(", ".to_excel(", "rm -rf",
       "DROP TABLE", "DELETE FROM", "TRUNCATE " >>

\* str.lower() on a denylist pattern
LowerPattern(p) ==
    CASE p = "DROP TABLE"  -> "drop table"
      [] p = "DELETE FROM" -> "delete from"
      [] p = "TRUNCATE "   -> "truncate "
      [] OTHER             -> p

PandasImport == "import pandas as pd"

\* source lines the code-generation oracle is modelled to emit
CodeLines ==
    { PandasImport, "df = pd.read_csv(p)", "result = df", "result = 1",
      "results = 1", "x = 1", "result = (", "OS.SYSTEM('x')",
      "q = 'drop table t'" }

\* str.lower() on a source line
LowerLine(l) ==
    CASE l = "OS.SYSTEM('x')" -> "os.system('x')"
      [] OTHER                -> l

\* the substrings of interest that occur in a (cased) source line
Fragments(l) ==
    CASE l = PandasImport          -> {"import pandas"}
      [] l = "df = pd.read_csv(p)" -> {"pd."}
      [] l = "result = df"         -> {"result"}
      [] l = "result = 1"          -> {"result"}
      [] l = "results = 1"         -> {"result"}
      [] l = "result = ("          -> {"result"}
      [] l = "OS.SYSTEM('x')"      -> {"OS.SYSTEM"}
      [] l = "os.system('x')"      -> {"os.system"}
      [] l = "q = 'drop table t'"  -> {"drop table"}
      [] OTHER                     -> {}

\* `sub in code`
Contains(code, sub) == \E i \in 1..Len(code) : sub \in Fragments(code[i])

\* code.lower()
LowerCode(code) == [i \in 1..Len(code) |-> LowerLine(code[i])]

\* compile(code, "<string>", "exec") does not raise SyntaxError
Compiles(code) == \A i \in 1..Len(code) : code[i] # "result = ("

\* texts the code-generation oracle answers with (after fence extraction
\* and strip); <<>> is the empty text
Codes ==
    { <<PandasImport, "df = pd.read_csv(p)", "result = df">>,
      <<"df = pd.read_csv(p)", "result = df">>,
      <<"results = 1">>,
      <<"x = 1">>,
      <<"result = (">>,
      <<"OS.SYSTEM('x')", "result = 1">>,
      <<"q = 'drop table t'", "result = 1">>,
      <<>> }


\* the code assigns the name `result` when run
BindsResult(code) ==
    \E i \in 1..Len(code) : code[i] \in {"result = df", "result = 1"}

\* a denylist scan that compares the patterns as written, case and all
ForbiddenFoundCaseSensitive(code) ==
    SelectSeq(FORBIDDEN_PATTERNS, LAMBDA p : Contains(code, p))

\* [pattern for pattern in FORBIDDEN_PATTERNS
\*  if pattern.lower() in code.lower()]
ForbiddenFound(code) ==
    SelectSeq(FORBIDDEN_PATTERNS,
              LAMBDA p : Contains(LowerCode(code), LowerPattern(p)))

ForbiddenError(p) == "Forbidden pattern detected: " \o p

\* an errors list built without the denylist scan
ValidationErrorsOfWithoutDenylist(code) ==
    (IF Compiles(code) THEN <<>> ELSE <<"Syntax error">>)
    \o (IF Contains(code, "result") THEN <<>>
        ELSE <<"Code must define a 'result' variable">>)

\* the errors list validate_code builds for a non-empty code text
ValidationErrorsOf(code) ==
    [i \in 1..Len(ForbiddenFound(code)) |-> ForbiddenError(ForbiddenFound(code)[i])]
    \o (IF Compiles(code) THEN <<>> ELSE <<"Syntax error">>)
    \o (IF Contains(code, "result") THEN <<>>
        ELSE <<"Code must define a 'result' variable">>)

\* the code text after the best-effort import repair
WithPandasImport(code) ==
    IF ~Contains(code, "import pandas") /\ Contains(code, "pd.")
    THEN <<PandasImport>> \o code
    ELSE code

\* a validator that adds its errors to those of the validations before
validate_code_accumulating(s) ==
    IF IsNone(s.generated_code) \/ Val(s.generated_code) = <<>>
    THEN [ code_valid        |-> FALSE,
           validation_errors |-> s.validation_errors \o <<"No code generated">>,
           current_node      |-> "validate_code",
           node_history      |-> <<"validate_code">> ]
    ELSE IF ValidationErrorsOf(Val(s.generated_code)) # <<>>
    THEN [ code_valid        |-> FALSE,
           validation_errors |->
               s.validation_errors \o ValidationErrorsOf(Val(s.generated_code)),
           current_node      |-> "validate_code",
           node_history      |-> <<"validate_code">> ]
    ELSE [ code_valid        |-> TRUE,
           validation_errors |-> <<>>,
           generated_code    |-> Some(WithPandasImport(Val(s.generated_code))),
           current_node      |-> "validate_code",
           node_history      |-> <<"validate_code">> ]

\* validate_code: the update it returns for the state's generated_code
validate_code(s) ==
    IF IsNone(s.generated_code) \/ Val(s.generated_code) = <<>>
    THEN [ code_valid        |-> FALSE,
           validation_errors |-> <<"No code generated">>,
           current_node      |-> "validate_code",
           node_history      |-> <<"validate_code">> ]
    ELSE IF ValidationErrorsOf(Val(s.generated_code)) # <<>>
    THEN [ code_valid        |-> FALSE,
           validation_errors |-> ValidationErrorsOf(Val(s.generated_code)),
           current_node      |-> "validate_code",
           node_history      |-> <<"validate_code">> ]
    ELSE [ code_valid        |-> TRUE,
           validation_errors |-> <<>>,
           generated_code    |-> Some(WithPandasImport(Val(s.generated_code))),
           current_node      |-> "validate_code",
           node_history      |-> <<"validate_code">> ]

\* o is the oracle's answer: None when chain.invoke raised, else the code
generate_code(s, o) ==
    IF IsNone(o)
    THEN [ generated_code |-> None,
           errors         |-> <<"Code generation error">>,
           current_node   |-> "generate_code",
           node_history   |-> <<"generate_code">> ]
    ELSE [ generated_code |-> o,
           current_node   |-> "generate_code",
           node_history   |-> <<"generate_code">> ]


\* what exec(code, namespace) can do with an accepted code text: bind
\* `result` to a table of some rows, to a mapping, leave it unbound /
\* None, or raise
ExecOutcomes(code) ==
    IF BindsResult(code)
    THEN { [kind |-> "dataframe", rows |-> 7], [kind |-> "dataframe", rows |-> 0],
           [kind |-> "dict", rows |-> 0], [kind |-> "none", rows |-> 0],
           [kind |-> "raise", rows |-> 0] }
    ELSE { [kind |-> "none", rows |-> 0] }

\* True when execute_code hands the code to exec()
ExecutesCode(s) ==
    ~(IsNone(s.generated_code) \/ Val(s.generated_code) = <<>>) /\ s.code_valid

\* an executor that reports a raise of the executed code like a missing
\* result, without recording it in errors
execute_code_drops_error(s, o) ==
    IF ~ExecutesCode(s)
    THEN [ execution_result |-> Some([success |-> FALSE,
                                     error |-> Some("No valid code to execute"),
                                     timed |-> FALSE]),
           current_node     |-> "execute_code",
           node_history     |-> <<"execute_code">> ]
    ELSE IF o.kind \in {"raise", "none"}
    THEN [ execution_result |-> Some([success |-> FALSE,
                                     error |-> Some("No result variable defined"),
                                     timed |-> TRUE]),
           current_node     |-> "execute_code",
           node_history     |-> <<"execute_code">> ]
    ELSE [ execution_result |-> Some([success |-> TRUE, error |-> None,
                                     timed |-> TRUE]),
           result_data      |-> Some([type |-> o.kind, rows |-> o.rows]),
           current_node     |-> "execute_code",
           node_history     |-> <<"execute_code">> ]

\* an executor that writes result_data whatever the outcome of the code
execute_code_always_result(s, o) ==
    [k \in DOMAIN execute_code_drops_error(s, o) \cup {"result_data"} |->
        IF k = "result_data" THEN Some([type |-> "dict", rows |-> 0])
        ELSE execute_code_drops_error(s, o)[k]]

\* execute_code: the update it returns when exec() of the code ends with
\* outcome o
execute_code(s, o) ==
    IF ~ExecutesCode(s)
    THEN [ execution_result |-> Some([success |-> FALSE,
                                     error |-> Some("No valid code to execute"),
                                     timed |-> FALSE]),
           current_node     |-> "execute_code",
           node_history     |-> <<"execute_code">> ]
    ELSE IF o.kind = "raise"
    THEN [ execution_result |-> Some([success |-> FALSE,
                                     error |-> Some("FileNotFoundError"),
                                     timed |-> TRUE]),
           errors           |-> <<"Execution error: FileNotFoundError">>,
           current_node     |-> "execute_code",
           node_history     |-> <<"execute_code">> ]
    ELSE IF o.kind = "none"
    THEN [ execution_result |-> Some([success |-> FALSE,
                                     error |-> Some("No result variable defined"),
                                     timed |-> TRUE]),
           current_node     |-> "execute_code",
           node_history     |-> <<"execute_code">> ]
    ELSE [ execution_result |-> Some([success |-> TRUE, error |-> None,
                                     timed |-> TRUE]),
           result_data      |-> Some([type |-> o.kind, rows |-> o.rows]),
           current_node     |-> "execute_code",
           node_history     |-> <<"execute_code">> ]

(***************************************************************************)
(* Ingest and context nodes  (pipeline/nodes/ingest.py, timeseries.py)     *)
(***************************************************************************)
\* an ingestion that writes the query back as it came
ingest_query_untrimmed(s) ==
    IF Strip(s.user_query) = <<>>
    THEN [ errors       |-> <<"Empty query provided">>,
           current_node |-> "ingest_query",
           node_history |-> <<"ingest_query">> ]
    ELSE [ user_query   |-> s.user_query,
           current_node |-> "ingest_query",
           node_history |-> <<"ingest_query">> ]

\* ingest_query: the update it returns
ingest_query(s) ==
    IF Strip(s.user_query) = <<>>
    THEN [ errors       |-> <<"Empty query provided">>,
           current_node |-> "ingest_query",
           node_history |-> <<"ingest_query">> ]
    ELSE [ user_query   |-> Strip(s.user_query),
           current_node |-> "ingest_query",
           node_history |-> <<"ingest_query">> ]

parse_files(s) ==
    IF s.available_files = <<>>
    THEN [ errors       |-> <<"No files available for analysis">>,
           current_node |-> "parse_files",
           node_history |-> <<"parse_files">> ]
    ELSE [ current_node |-> "parse_files",
           node_history |-> <<"parse_files">> ]

retrieve_context(s) ==
    [ current_node |-> "retrieve_context",
      node_history |-> <<"retrieve_context">> ]

(***************************************************************************)
(* Planning nodes  (pipeline/nodes/planning.py)                            *)
(***************************************************************************)
\* get_llm(): raises ValueError when the configured provider has no key
GetLlmError == "OPENAI_API_KEY environment variable is required"

\* answers of the intent oracle: None when chain.invoke or json.loads
\* raised (or the JSON is not an object), else the parsed object
IntentAnswers(files) ==
    { None,
      Some([intent |-> "aggregate", files_needed |-> Take(Filenames(files), 1)]),
      Some([intent |-> "trend", operation_type |-> "cross_table",
            files_needed |-> Filenames(files)]) }

\* the exception analyze_intent lets escape, if any
analyze_intent_raises(s, llm, o) ==
    IF ~llm THEN Some(GetLlmError)
    ELSE IF IsNone(o) /\ s.available_files = <<>>
    THEN Some("list index out of range")
    ELSE None

analyze_intent(s, o) ==
    IF IsNone(o)
    THEN [ intent         |-> Some("query"),
           operation_type |-> Some("single_table"),
           files_to_use   |-> <<s.available_files[1].filename>>,
           errors         |-> <<"Intent analysis error">>,
           current_node   |-> "analyze_intent",
           node_history   |-> <<"analyze_intent">> ]
    ELSE [ intent         |-> Some(Get(Val(o), "intent", "query")),
           operation_type |-> Some(Get(Val(o), "operation_type", "single_table")),
           files_to_use   |-> Get(Val(o), "files_needed", <<>>),
           current_node   |-> "analyze_intent",
           node_history   |-> <<"analyze_intent">> ]

\* answers of the planning oracle: None on failure, else the parsed JSON,
\* which is an object (with or without the routing flag) or an array
PlanAnswers ==
    { None,
      Some([shape |-> "dict", time_alignment_needed |-> TRUE]),
      Some([shape |-> "list"]) }

plan_analysis_raises(s, llm) == IF ~llm THEN Some(GetLlmError) ELSE None

plan_analysis(s, o) ==
    IF IsNone(o)
    THEN [ plan |-> Some([shape |-> "dict",
                          time_alignment_needed |->
                              (s.operation_type = Some("cross_table")),
                          reasoning |-> "Default plan"]),
           current_node |-> "plan_analysis",
           node_history |-> <<"plan_analysis">> ]
    ELSE [ plan         |-> o,
           current_node |-> "plan_analysis",
           node_history |-> <<"plan_analysis">> ]


generate_code_raises(s, llm) == IF ~llm THEN Some(GetLlmError) ELSE None

(***************************************************************************)
(* Timeseries nodes  (pipeline/nodes/timeseries.py)                        *)
(***************************************************************************)
\* [f for f in files if f.get("filename") in files_to_use]
SelectedFiles(s) ==
    SelectIn(Filenames(s.available_files), Range(s.files_to_use))

\* True when align_timeseries consults the oracle
AlignConsultsOracle(s) ==
    /\ s.operation_type \in {Some("cross_table"), Some("temporal")}
    /\ Len(SelectedFiles(s)) >= 2

\* ok is FALSE when get_llm_singleton or the chain raised
align_timeseries(s, ok) ==
    IF ~AlignConsultsOracle(s)
    THEN [ alignment_info |-> None,
           current_node   |-> "align_timeseries",
           node_history   |-> <<"align_timeseries">> ]
    ELSE IF ok
    THEN [ alignment_info |-> Some([error |-> FALSE]),
           current_node   |-> "align_timeseries",
           node_history   |-> <<"align_timeseries">> ]
    ELSE [ alignment_info |-> Some([error |-> TRUE]),
           errors         |-> <<"Alignment error">>,
           current_node   |-> "align_timeseries",
           node_history   |-> <<"align_timeseries">> ]

trend_keywords ==
    <<"trend", "growth", "change", "compare", "anomal", "pattern", "season">>

\* any(kw in query.lower() for kw in trend_keywords)
MatchesTrendKeyword(query) ==
    \E i \in 1..Len(query) : \E k \in 1..Len(trend_keywords) :
        LowerWord(query[i]) = trend_keywords[k]

ShouldAnalyzeTrend(s) ==
    \/ s.intent \in {Some("trend"), Some("compare")}
    \/ MatchesTrendKeyword(s.user_query)

\* True when trend_analysis consults the oracle
TrendConsultsOracle(s) == ShouldAnalyzeTrend(s) /\ ~IsNone(s.result_data)

\* answers of the trend oracle: None on failure, else its
\* recommended_actions
TrendAnswers ==
    { None,
      Some(<<"Action 1", "Action 2", "Action 3", "Action 4", "Action 5",
             "Action 6">>) }

\* a merge that puts the oracle's actions before the recommendations the
\* state already holds
trend_analysis_new_first(s, o) ==
    IF ~TrendConsultsOracle(s)
    THEN [ trend_insights |-> None,
           current_node   |-> "trend_analysis",
           node_history   |-> <<"trend_analysis">> ]
    ELSE IF IsNone(o)
    THEN [ trend_insights |-> Some([error |-> TRUE]),
           current_node   |-> "trend_analysis",
           node_history   |-> <<"trend_analysis">> ]
    ELSE [ trend_insights  |-> Some([error |-> FALSE]),
           recommendations |-> Take(Val(o) \o s.recommendations, 5),
           current_node    |-> "trend_analysis",
           node_history    |-> <<"trend_analysis">> ]

\* trend_analysis: the update it returns when the oracle answers o
trend_analysis(s, o) ==
    IF ~TrendConsultsOracle(s)
    THEN [ trend_insights |-> None,
           current_node   |-> "trend_analysis",
           node_history   |-> <<"trend_analysis">> ]
    ELSE IF IsNone(o)
    THEN [ trend_insights |-> Some([error |-> TRUE]),
           current_node   |-> "trend_analysis",
           node_history   |-> <<"trend_analysis">> ]
    ELSE [ trend_insights  |-> Some([error |-> FALSE]),
           recommendations |-> Take(s.recommendations \o Val(o), 5),
           current_node    |-> "trend_analysis",
           node_history    |-> <<"trend_analysis">> ]

(***************************************************************************)
(* Explanation and output nodes  (pipeline/nodes/explain.py)               *)
(***************************************************************************)
RecommendationsMarker == "**Recommendations:**"

\* line[2:] when the stripped line starts with "- " or "* ", else None
BulletText(line) ==
    CASE line = "- Raise prices"  -> Some("Raise prices")
      [] line = "* Watch churn"   -> Some("Watch churn")
      [] OTHER                    -> None

\* answers of the explanation oracle: None on failure, else the lines of
\* response.content
ExplainAnswers ==
    { None,
      Some(<<"**Key Finding:** revenue rose", RecommendationsMarker,
             "- Raise prices", "* Watch churn", "Regards">>),
      Some(<<RecommendationsMarker, "nothing to add">>) }

\* text.split(marker)[0]
Before(text, marker) == SubSeq(text, 1, FirstIndex(text, {marker}) - 1)

\* what follows the first marker; <<>> when there is none
After(text, marker) == SubSeq(text, FirstIndex(text, {marker}) + 1, Len(text))

\* the bullet lines of a text, without their bullet marker
BulletLines(text) == SelectSeq(text, LAMBDA l : ~IsNone(BulletText(l)))

Bullets(text) ==
    [i \in 1..Len(BulletLines(text)) |-> Val(BulletText(BulletLines(text)[i]))]

\* the recommendations explain_result extracts from the oracle's text
ExtractRecommendations(text) ==
    Bullets(Before(After(text, RecommendationsMarker), RecommendationsMarker))

ExecutionSucceeded(s) ==
    ~IsNone(s.execution_result) /\ Val(s.execution_result).success

\* True when explain_result consults the oracle
ExplainConsultsOracle(s) == ExecutionSucceeded(s) /\ ~IsNone(s.result_data)

explain_result_raises(s, llm) ==
    IF ExplainConsultsOracle(s) /\ ~llm THEN Some(GetLlmError) ELSE None

\* an explanation step that adds its recommendations to those the state
\* already holds
explain_result_merging(s, o) ==
    IF ~ExecutionSucceeded(s)
    THEN [ explanation |->
               Some(<<"I encountered an error while analyzing your data: "
                      \o (IF IsNone(s.execution_result)
                             \/ IsNone(Val(s.execution_result).error)
                          THEN "Unknown error"
                          ELSE Val(Val(s.execution_result).error))>>),
           recommendations |->
               <<"Please try rephrasing your question",
                 "Make sure the data contains the columns you're asking about">>,
           current_node |-> "explain_result",
           node_history |-> <<"explain_result">> ]
    ELSE IF IsNone(s.result_data)
    THEN [ explanation     |-> Some(<<"No results were generated from the analysis.">>),
           recommendations |-> <<"Please try a different query">>,
           current_node    |-> "explain_result",
           node_history    |-> <<"explain_result">> ]
    ELSE IF IsNone(o)
    THEN [ explanation     |->
               Some(<<"Analysis complete. Here are the results based on your query.">>),
           recommendations |-> <<"Review the data table for detailed insights">>,
           errors          |-> <<"Explanation generation error">>,
           current_node    |-> "explain_result",
           node_history    |-> <<"explain_result">> ]
    ELSE [ explanation     |->
               Some(IF RecommendationsMarker \in Range(Val(o))
                    THEN Before(Val(o), RecommendationsMarker)
                    ELSE Val(o)),
           recommendations |->
               s.recommendations
               \o (IF ExtractRecommendations(Val(o)) # <<>>
                   THEN ExtractRecommendations(Val(o))
                   ELSE <<"Consider exploring related metrics">>),
           current_node    |-> "explain_result",
           node_history    |-> <<"explain_result">> ]

\* an explanation step that keeps the extracted recommendations even when
\* there are none
explain_result_no_fallback(s, o) ==
    IF ~ExecutionSucceeded(s)
    THEN [ explanation |->
               Some(<<"I encountered an error while analyzing your data: "
                      \o (IF IsNone(s.execution_result)
                             \/ IsNone(Val(s.execution_result).error)
                          THEN "Unknown error"
                          ELSE Val(Val(s.execution_result).error))>>),
           recommendations |->
               <<"Please try rephrasing your question",
                 "Make sure the data contains the columns you're asking about">>,
           current_node |-> "explain_result",
           node_history |-> <<"explain_result">> ]
    ELSE IF IsNone(s.result_data)
    THEN [ explanation     |-> Some(<<"No results were generated from the analysis.">>),
           recommendations |-> <<"Please try a different query">>,
           current_node    |-> "explain_result",
           node_history    |-> <<"explain_result">> ]
    ELSE IF IsNone(o)
    THEN [ explanation     |->
               Some(<<"Analysis complete. Here are the results based on your query.">>),
           recommendations |-> <<"Review the data table for detailed insights">>,
           errors          |-> <<"Explanation generation error">>,
           current_node    |-> "explain_result",
           node_history    |-> <<"explain_result">> ]
    ELSE [ explanation     |->
               Some(IF RecommendationsMarker \in Range(Val(o))
                    THEN Before(Val(o), RecommendationsMarker)
                    ELSE Val(o)),
           recommendations |-> ExtractRecommendations(Val(o)),
           current_node    |-> "explain_result",
           node_history    |-> <<"explain_result">> ]

\* explain_result: the update it returns when the oracle answers o
explain_result(s, o) ==
    IF ~ExecutionSucceeded(s)
    THEN [ explanation |->
               Some(<<"I encountered an error while analyzing your data: "
                      \o (IF IsNone(s.execution_result)
                             \/ IsNone(Val(s.execution_result).error)
                          THEN "Unknown error"
                          ELSE Val(Val(s.execution_result).error))>>),
           recommendations |->
               <<"Please try rephrasing your question",
                 "Make sure the data contains the columns you're asking about">>,
           current_node |-> "explain_result",
           node_history |-> <<"explain_result">> ]
    ELSE IF IsNone(s.result_data)
    THEN [ explanation     |-> Some(<<"No results were generated from the analysis.">>),
           recommendations |-> <<"Please try a different query">>,
           current_node    |-> "explain_result",
           node_history    |-> <<"explain_result">> ]
    ELSE IF IsNone(o)
    THEN [ explanation     |->
               Some(<<"Analysis complete. Here are the results based on your query.">>),
           recommendations |-> <<"Review the data table for detailed insights">>,
           errors          |-> <<"Explanation generation error">>,
           current_node    |-> "explain_result",
           node_history    |-> <<"explain_result">> ]
    ELSE [ explanation     |->
               Some(IF RecommendationsMarker \in Range(Val(o))
                    THEN Before(Val(o), RecommendationsMarker)
                    ELSE Val(o)),
           recommendations |->
               IF ExtractRecommendations(Val(o)) # <<>>
               THEN ExtractRecommendations(Val(o))
               ELSE <<"Consider exploring related metrics">>,
           current_node    |-> "explain_result",
           node_history    |-> <<"explain_result">> ]

\* Python truthiness of an Optional text
Truthy(o) == ~IsNone(o) /\ Val(o) # <<>>

HasRows(s) ==
    /\ ~IsNone(s.result_data)
    /\ Val(s.result_data).type = "dataframe"
    /\ Val(s.result_data).rows > 0

RowsLine(n) == "Result: " \o ToString(n) \o " rows returned"

\* return_chat raises TypeError when it appends to a None explanation
return_chat_raises(s) ==
    IF ~(s.errors # <<>> /\ ~Truthy(s.explanation))
       /\ IsNone(s.explanation) /\ HasRows(s)
    THEN Some("unsupported operand type(s) for +=: 'NoneType' and 'str'")
    ELSE None

ReturnChatBody(s) ==
    IF s.errors # <<>> /\ ~Truthy(s.explanation)
    THEN Some(<<"I encountered some issues while processing your request:">>
              \o [i \in 1..Len(s.errors) |-> "- " \o s.errors[i]])
    ELSE s.explanation

return_chat(s) ==
    [ final_response |->
          IF HasRows(s)
          THEN Some(Val(ReturnChatBody(s)) \o <<RowsLine(Val(s.result_data).rows)>>)
          ELSE ReturnChatBody(s),
      current_node   |-> "return_chat",
      node_history   |-> <<"return_chat">> ]

\* a message that lists validation_errors before errors
HandleErrorMessageValidationFirst(s) ==
    <<"I wasn't able to complete your analysis:">>
    \o (IF s.validation_errors \o s.errors = <<>>
        THEN <<"* An unknown error occurred during analysis">>
        ELSE [i \in 1..Len(Take(s.validation_errors \o s.errors, 3)) |->
                 "* " \o (s.validation_errors \o s.errors)[i]])
    \o <<"Please try rephrasing your question or check if the data contains the requested columns.">>

\* handle_error: the message built from errors + validation_errors
HandleErrorMessage(s) ==
    <<"I wasn't able to complete your analysis:">>
    \o (IF s.errors \o s.validation_errors = <<>>
        THEN <<"* An unknown error occurred during analysis">>
        ELSE [i \in 1..Len(Take(s.errors \o s.validation_errors, 3)) |->
                 "* " \o (s.errors \o s.validation_errors)[i]])
    \o <<"Please try rephrasing your question or check if the data contains the requested columns.">>

handle_error(s) ==
    [ explanation     |-> Some(HandleErrorMessage(s)),
      final_response  |-> Some(HandleErrorMessage(s)),
      recommendations |-> <<"Try a simpler query first",
                            "Check available column names in your files">>,
      current_node    |-> "handle_error",
      node_history    |-> <<"handle_error">> ]


(***************************************************************************)
(* The graph  (pipeline/graph.py)                                          *)
(***************************************************************************)
Nodes ==
    { "ingest_query", "parse_files", "retrieve_context", "analyze_intent",
      "plan_analysis", "align_timeseries", "generate_code", "increment_retry",
      "validate_code", "execute_code", "trend_analysis", "explain_result",
      "return_chat", "handle_error" }

END == "end"

\* the edges build_graph declares, conditional targets included
Edges ==
    { <<"ingest_query", "parse_files">>, <<"parse_files", "retrieve_context">>,
      <<"retrieve_context", "analyze_intent">>,
      <<"analyze_intent", "plan_analysis">>,
      <<"plan_analysis", "align_timeseries">>, <<"plan_analysis", "generate_code">>,
      <<"align_timeseries", "generate_code">>,
      <<"generate_code", "validate_code">>,
      <<"validate_code", "execute_code">>, <<"validate_code", "increment_retry">>,
      <<"validate_code", "handle_error">>,
      <<"increment_retry", "generate_code">>,
      <<"execute_code", "trend_analysis">>, <<"execute_code", "handle_error">>,
      <<"trend_analysis", "explain_result">>,
      <<"explain_result", "return_chat">>,
      <<"handle_error", "return_chat">>,
      <<"return_chat", END>> }

PlanAligns(s) ==
    Get(Val(s.plan), "time_alignment_needed", FALSE)

\* plan.get raises AttributeError when the plan is not a dict
should_align_timeseries_raises(s) ==
    IF /\ s.operation_type \in {Some("cross_table"), Some("temporal")}
       /\ Val(s.plan).shape # "dict"
    THEN Some("'list' object has no attribute 'get'")
    ELSE None

should_align_timeseries(s) ==
    IF /\ s.operation_type \in {Some("cross_table"), Some("temporal")}
       /\ PlanAligns(s)
    THEN "align_timeseries"
    ELSE "generate_code"

\* a validity branch that allows a third regeneration
check_code_validity_three_retries(s) ==
    IF s.code_valid THEN "execute_code"
    ELSE IF s.retry_count < 3 THEN "generate_code"
    ELSE "handle_error"

\* check_code_validity: valid code is executed, invalid code is
\* regenerated while retry_count < 2, else the run goes to handle_error
check_code_validity(s) ==
    IF s.code_valid THEN "execute_code"
    ELSE IF s.retry_count < 2 THEN "generate_code"
    ELSE "handle_error"

\* the path map of the conditional edge out of validate_code
AfterValidate(s) ==
    CASE check_code_validity(s) = "execute_code"  -> "execute_code"
      [] check_code_validity(s) = "generate_code" -> "increment_retry"
      [] check_code_validity(s) = "handle_error"  -> "handle_error"

\* a check that sends every execution on to the explanation
check_execution_success_ignoring_failure(s) == "explain_result"

\* check_execution_success: the conditional edge out of execute_code
check_execution_success(s) ==
    IF ExecutionSucceeded(s) THEN "explain_result" ELSE "handle_error"

\* the path map of the conditional edge out of execute_code
AfterExecute(s) ==
    CASE check_execution_success(s) = "explain_result" -> "trend_analysis"
      [] check_execution_success(s) = "handle_error"   -> "handle_error"

\* a retry step that counts two retries at once
increment_retry_by_two(s) ==
    [ retry_count  |-> s.retry_count + 2,
      node_history |-> <<"increment_retry">> ]

increment_retry(s) ==
    [ retry_count  |-> s.retry_count + 1,
      node_history |-> <<"increment_retry">> ]

(***************************************************************************)
(* Running the graph                                                       *)
(***************************************************************************)
NoReturn == [status |-> "none", entry |-> "none", value |-> <<>>]

\* the channel values loaded for a thread: the checkpointer restores what
\* the thread's last step left; the input of an invocation then writes
\* every key, so only the reducer channels keep what was restored
ThreadChannels(sid, input) ==
    [k \in DOMAIN input |->
        IF k \in ReducerChannels THEN saved[sid][k] ELSE input[k]]

Checkpoint(s) == [node_history |-> s.node_history, errors |-> s.errors]

\* one superstep: node `name` returned `upd`; the graph folds it into the
\* channels, checkpoints the thread and moves to `next`
Step(name, upd, next) ==
    /\ st' = ApplyWrites(st, upd)
    /\ chunk' = [node |-> name, update |-> upd]
    /\ trace' = Append(trace, name)
    /\ saved' = [saved EXCEPT ![call.session_id] = Checkpoint(st')]
    /\ pc' = next
    /\ UNCHANGED <<call, exc, ret>>
    /\ UNCHANGED <<chatVars, rateVars>>

\* an exception leaves the node or the conditional edge attached to it:
\* the task fails as a whole, none of its writes is applied, the graph stops
Raise(msg) ==
    /\ pc' = "raised"
    /\ exc' = msg
    /\ UNCHANGED <<st, chunk, trace, saved, call, ret>>
    /\ UNCHANGED <<chatVars, rateVars>>

(***************************************************************************)
(* Chat service and cache (backend/app)                                    *)
(***************************************************************************)
\* process_message calls are modelled while chat_messages holds fewer
\* rows than this
MaxMessages == 4

\* ids of the uploaded_files rows that upload requests create
FileIds == {1, 2}

\* message texts sent to the chat endpoint
ChatQueries == {"total revenue", "revenue trend"}

\* every order in which the elements of a set can be listed
Orders(S) ==
    { s \in [1..Cardinality(S) -> S] : \A i, j \in 1..Cardinality(S) : s[i] = s[j] => i = j }

\* sorted(file_ids)
sorted(ids) ==
    CHOOSE s \in Orders(Range(ids)) : \A i \in 1..(Len(s) - 1) : s[i] < s[i + 1]

\* CacheService._file_key(session_id): "files:{session_id}"
_file_key(session_id) == <<"files", session_id>>

\* a key that keeps the file ids in the order they were given
_hash_query_unsorted(query, file_ids) == <<query, file_ids>>

\* CacheService._hash_query: md5 of "{query}:{sorted(file_ids)}", held as
\* the hashed content itself
_hash_query(query, file_ids) == <<query, sorted(file_ids)>>

\* CacheService._analysis_key: "analysis:{session_id}:{query_hash}"
_analysis_key(session_id, query_hash) == <<"analysis", session_id, query_hash>>

\* a pattern that selects every key of the session, whatever its kind
MatchesEveryKeyOfSession(key, session_id) == key[2] = session_id

\* the glob "file*:{session_id}*" of invalidate_session_files applied to a
\* key "<kind>:<session>...": the kind has to begin with "file", and only
\* a session id that begins with session_id can follow the colon
MatchesInvalidatePattern(key, session_id) ==
    /\ key[1] \in {"file", "files"}
    /\ key[2] = session_id

\* json.dumps / json.loads: the serialized text and the value read back
json_dumps(value) == <<"json", value>>
json_loads(text) == text[2]

\* CacheService.get as if the client were always connected and never raised
cache_get_ignoring_failure(store, up, key) ==
    IF key \in DOMAIN store THEN Some(json_loads(store[key])) ELSE None

\* CacheService.get: no value when the backend is unreachable, the key is
\* missing or the operation raises
cache_get(store, up, key) ==
    IF up /\ key \in DOMAIN store THEN Some(json_loads(store[key])) ELSE None

\* CacheService.set (setex): the store afterwards
cache_set(store, up, key, value) ==
    IF up
    THEN [k \in DOMAIN store \cup {key} |->
             IF k = key THEN json_dumps(value) ELSE store[k]]
    ELSE store

\* what CacheService.set returns
cache_set_returns(up) == up

\* what CacheService.delete_pattern returns for the pattern of
\* invalidate_session_files: the number of keys deleted
delete_pattern_returns(store, up, session_id) ==
    IF up
    THEN Cardinality({x \in DOMAIN store : MatchesInvalidatePattern(x, session_id)})
    ELSE 0

\* CacheService.delete_pattern for the pattern of invalidate_session_files
invalidate_session_files(store, up, session_id) ==
    IF up
    THEN [k \in {x \in DOMAIN store : ~MatchesInvalidatePattern(x, session_id)} |->
             store[k]]
    ELSE store

\* the terminal states run_analysis_sync hands to process_message, reduced
\* to the keys process_message reads: a successful analysis, a run whose
\* explanation came back empty, and a failed graph invocation
WorkflowResults ==
    { [final_response |-> Some(<<"**Key Finding:** revenue rose">>),
       explanation |-> Some(<<"**Key Finding:** revenue rose">>), errors |-> <<>>],
      [final_response |-> Some(<<>>), explanation |-> Some(<<>>), errors |-> <<>>],
      [final_response |-> Some(<<"Analysis error: " \o GetLlmError>>),
       explanation |-> None, errors |-> <<GetLlmError>>] }

\* result.get("final_response") or result.get("explanation") or "Analysis complete."
ResponseText(result) ==
    IF Truthy(result.final_response) THEN Val(result.final_response)
    ELSE IF Truthy(result.explanation) THEN Val(result.explanation)
    ELSE <<"Analysis complete.">>

NoFilesText == <<"No data files have been uploaded yet.">>

IdlePm == [pc |-> "idle"]

NoReply == [status |-> "none"]

Init ==
    /\ st = create_initial_state("s1", <<>>, <<>>, <<>>)
    /\ pc = "idle"
    /\ call = [session_id |-> "s1", user_query |-> <<>>,
               available_files |-> <<>>, chat_history |-> <<>>, llm |-> TRUE]
    /\ exc = None
    /\ ret = NoReturn
    /\ saved = [t \in Sessions |-> EmptyThread]
    /\ chunk = [node |-> "start", update |-> [current_node |-> "start"]]
    /\ trace = <<>>
    /\ ran = None
    /\ accepted = None
    /\ redis = <<>>
    /\ redis_up = TRUE
    /\ files_table = [s \in Sessions |-> {}]
    /\ pm = IdlePm
    /\ reply = NoReply
    /\ messages = <<>>
    /\ analyses = 0
    /\ req = [pc |-> "idle"]
    /\ overlap = FALSE
    /\ ratelimit = [count |-> 0, ttl |-> 0]
    /\ rl_pc = [c \in {"a", "b"} |-> [pc |-> "idle"]]
    /\ rl_result = [c \in {"a", "b"} |-> [allowed |-> FALSE, remaining |-> -1, nth |-> 0]]
    /\ rl_hist = [calls |-> 0, granted |-> 0, disturbed |-> FALSE]

\* run_analysis / run_analysis_sync up to the point the graph starts: the
\* caller's arguments, and whether the configured LLM provider has a key
Invoke(sid, query, files, llm) ==
    /\ pc = "idle"
    /\ Len(saved[sid].node_history) <= MaxCarried
    /\ call' = [session_id |-> sid, user_query |-> query,
                available_files |-> files, chat_history |-> <<>>, llm |-> llm]
    /\ st' = ApplyWrites(
                ThreadChannels(sid, create_initial_state(sid, query, files, <<>>)),
                create_initial_state(sid, query, files, <<>>))
    /\ saved' = [saved EXCEPT ![sid] = Checkpoint(st')]
    /\ pc' = "ingest_query"
    /\ exc' = None
    /\ ret' = NoReturn
    /\ chunk' = [node |-> "start", update |-> [current_node |-> "start"]]
    /\ trace' = <<>>
    /\ ran' = None
    /\ accepted' = None
    /\ UNCHANGED <<chatVars, rateVars>>

IngestQuery ==
    /\ pc = "ingest_query"
    /\ Step("ingest_query", ingest_query(st), "parse_files")
    /\ UNCHANGED <<ran, accepted>>

ParseFiles ==
    /\ pc = "parse_files"
    /\ Step("parse_files", parse_files(st), "retrieve_context")
    /\ UNCHANGED <<ran, accepted>>

RetrieveContext ==
    /\ pc = "retrieve_context"
    /\ Step("retrieve_context", retrieve_context(st), "analyze_intent")
    /\ UNCHANGED <<ran, accepted>>

AnalyzeIntent ==
    /\ pc = "analyze_intent"
    /\ \E o \in IntentAnswers(st.available_files) :
         IF ~IsNone(analyze_intent_raises(st, call.llm, o))
         THEN Raise(analyze_intent_raises(st, call.llm, o))
         ELSE Step("analyze_intent", analyze_intent(st, o), "plan_analysis")
    /\ UNCHANGED <<ran, accepted>>

PlanAnalysis ==
    /\ pc = "plan_analysis"
    /\ \E o \in PlanAnswers :
         IF ~IsNone(plan_analysis_raises(st, call.llm))
         THEN Raise(plan_analysis_raises(st, call.llm))
         ELSE IF ~IsNone(should_align_timeseries_raises(
                            ApplyWrites(st, plan_analysis(st, o))))
         THEN Raise(should_align_timeseries_raises(
                            ApplyWrites(st, plan_analysis(st, o))))
         ELSE Step("plan_analysis", plan_analysis(st, o),
                   should_align_timeseries(st'))
    /\ UNCHANGED <<ran, accepted>>

AlignTimeseries ==
    /\ pc = "align_timeseries"
    /\ \E ok \in (IF AlignConsultsOracle(st) THEN BOOLEAN ELSE {TRUE}) :
         Step("align_timeseries", align_timeseries(st, ok), "generate_code")
    /\ UNCHANGED <<ran, accepted>>


GenerateCode ==
    /\ pc = "generate_code"
    /\ \E o \in {None} \cup {Some(c) : c \in Codes} :
         IF ~IsNone(generate_code_raises(st, call.llm))
         THEN Raise(generate_code_raises(st, call.llm))
         ELSE Step("generate_code", generate_code(st, o), "validate_code")
    /\ UNCHANGED <<ran, accepted>>

ValidateCode ==
    /\ pc = "validate_code"
    /\ Step("validate_code", validate_code(st), AfterValidate(st'))
    /\ accepted' = IF st'.code_valid THEN st'.generated_code ELSE None
    /\ UNCHANGED ran

IncrementRetry ==
    /\ pc = "increment_retry"
    /\ Step("increment_retry", increment_retry(st), "generate_code")
    /\ UNCHANGED <<ran, accepted>>

ExecuteCode ==
    /\ pc = "execute_code"
    /\ \E o \in (IF ExecutesCode(st) THEN ExecOutcomes(Val(st.generated_code))
                 ELSE {[kind |-> "none", rows |-> 0]}) :
         /\ Step("execute_code", execute_code(st, o), AfterExecute(st'))
         /\ ran' = IF ExecutesCode(st)
                   THEN Some([code |-> Val(st.generated_code),
                              code_valid |-> st.code_valid, outcome |-> o.kind])
                   ELSE None
    /\ UNCHANGED accepted

TrendAnalysis ==
    /\ pc = "trend_analysis"
    /\ \E o \in (IF TrendConsultsOracle(st) THEN TrendAnswers ELSE {None}) :
         Step("trend_analysis", trend_analysis(st, o), "explain_result")
    /\ UNCHANGED <<ran, accepted>>

ExplainResult ==
    /\ pc = "explain_result"
    /\ \E o \in (IF ExplainConsultsOracle(st) THEN ExplainAnswers ELSE {None}) :
         IF ~IsNone(explain_result_raises(st, call.llm))
         THEN Raise(explain_result_raises(st, call.llm))
         ELSE Step("explain_result", explain_result(st, o), "return_chat")
    /\ UNCHANGED <<ran, accepted>>

HandleError ==
    /\ pc = "handle_error"
    /\ Step("handle_error", handle_error(st), "return_chat")
    /\ UNCHANGED <<ran, accepted>>

ReturnChat ==
    /\ pc = "return_chat"
    /\ IF ~IsNone(return_chat_raises(st))
       THEN Raise(return_chat_raises(st))
       ELSE Step("return_chat", return_chat(st), END)
    /\ UNCHANGED <<ran, accepted>>

(***************************************************************************)
(* The entry points  (pipeline/graph.py)                                   *)
(***************************************************************************)
\* the initial state both entry points build from the caller's arguments
initial_state_of(c) ==
    create_initial_state(c.session_id, c.user_query, c.available_files,
                         c.chat_history)

\* an except branch that records the error but sets no final_response
run_analysis_sync_result_without_message(final_state, c, e) ==
    IF IsNone(e)
    THEN final_state
    ELSE [initial_state_of(c) EXCEPT !.errors = <<Val(e)>>]

\* what run_analysis_sync returns once app.invoke returned final_state or
\* raised e
run_analysis_sync_result(final_state, c, e) ==
    IF IsNone(e)
    THEN final_state
    ELSE [initial_state_of(c) EXCEPT
            !.errors = <<Val(e)>>,
            !.final_response = Some(<<"Analysis error: " \o Val(e)>>)]

\* what run_analysis returns once app.astream is exhausted: the dict that
\* the last streamed chunk maps its node name to
run_analysis_result(last_chunk) == last_chunk.update

\* both entry points build the same initial state and drive the same
\* graph; they differ only in how the outcome is handed to the caller
ReturnSync ==
    /\ pc \in {END, "raised"}
    /\ ret' = [status |-> "returned", entry |-> "sync",
               value |-> run_analysis_sync_result(st, call, exc)]
    /\ pc' = "idle"
    /\ UNCHANGED <<st, call, exc, saved, chunk, trace, ran, accepted>>
    /\ UNCHANGED <<chatVars, rateVars>>

ReturnAsync ==
    /\ pc \in {END, "raised"}
    /\ ret' = IF pc = "raised"
              THEN [status |-> "raised", entry |-> "async", value |-> <<>>]
              ELSE [status |-> "returned", entry |-> "async",
                    value |-> run_analysis_result(chunk)]
    /\ pc' = "idle"
    /\ UNCHANGED <<st, call, exc, saved, chunk, trace, ran, accepted>>
    /\ UNCHANGED <<chatVars, rateVars>>

(***************************************************************************)
(* process_message, upload and delete requests, cache backend              *)
(***************************************************************************)
\* the analysis entries the store holds for a session, a query and a set
\* of file ids, whatever the order the ids were given in
EntriesFor(store, session_id, query, ids) ==
    { k \in DOMAIN store :
        /\ k[1] = "analysis" /\ k[2] = session_id
        /\ k[3][1] = query /\ Range(k[3][2]) = ids }

\* process_message up to its first read of the file list: the user's
\* message is saved
ProcessMessage(session_id, message) ==
    /\ pm.pc = "idle"
    /\ Len(messages) + 2 <= MaxMessages
    /\ messages' = Append(messages, [role |-> "user", content |-> <<message>>])
    /\ pm' = [pc |-> "get_files", session_id |-> session_id, message |-> message]
    /\ reply' = NoReply
    /\ overlap' = (req.pc # "idle")
    /\ UNCHANGED <<redis, redis_up, files_table, analyses, req>>
    /\ UNCHANGED <<graphVars, rateVars>>

\* get_files_for_session: the cached list when the cache has a non-empty
\* one, else the committed rows of the session
ReadFiles ==
    /\ pm.pc = "get_files"
    /\ LET cached == cache_get(redis, redis_up, _file_key(pm.session_id)) IN
         IF Truthy(cached)
         THEN pm' = [pc |-> "have_files", session_id |-> pm.session_id,
                     message |-> pm.message, files |-> Val(cached)]
         ELSE \E rows \in Orders(files_table[pm.session_id]) :
                pm' = [pc |-> "cache_files", session_id |-> pm.session_id,
                       message |-> pm.message, files |-> rows]
    /\ UNCHANGED <<redis, redis_up, files_table, reply, messages, analyses, req, overlap>>
    /\ UNCHANGED <<graphVars, rateVars>>

\* get_files_for_session, after the rows were read: the list is cached
CacheFiles ==
    /\ pm.pc = "cache_files"
    /\ redis' = cache_set(redis, redis_up, _file_key(pm.session_id), pm.files)
    /\ pm' = [pm EXCEPT !.pc = "have_files"]
    /\ UNCHANGED <<redis_up, files_table, reply, messages, analyses, req, overlap>>
    /\ UNCHANGED <<graphVars, rateVars>>

\* process_message when the session has no files
AnswerNoFiles ==
    /\ pm.pc = "have_files"
    /\ pm.files = <<>>
    /\ messages' = Append(messages, [role |-> "assistant", content |-> NoFilesText])
    /\ reply' = [status |-> "success", response |-> NoFilesText,
                 held |-> None, backend_up |-> redis_up, ran |-> FALSE,
                 cached |-> FALSE, saw_committed |-> Range(pm.files) = files_table[pm.session_id]]
    /\ pm' = IdlePm
    /\ UNCHANGED <<redis, redis_up, files_table, analyses, req, overlap>>
    /\ UNCHANGED <<graphVars, rateVars>>

\* process_message's cache check: a hit is answered at once, a miss goes
\* on to the workflow
LookupAnalysis ==
    /\ pm.pc = "have_files"
    /\ pm.files # <<>>
    /\ LET key == _analysis_key(pm.session_id, _hash_query(pm.message, pm.files))
           cached_result == cache_get(redis, redis_up, key)
           entries == EntriesFor(redis, pm.session_id, pm.message, Range(pm.files))
           held == IF entries = {} THEN None
                   ELSE Some(json_loads(redis[CHOOSE k \in entries : TRUE]))
       IN IF ~IsNone(cached_result)
          THEN /\ messages' = Append(messages,
                     [role |-> "assistant",
                      content |-> ResponseText(Val(cached_result)) \o <<"*[Cached result]*">>])
               /\ reply' = [status |-> "success",
                            response |-> ResponseText(Val(cached_result)),
                            analysis_id |-> Val(cached_result).analysis_id,
                            cached |-> TRUE, held |-> held,
                            backend_up |-> redis_up, ran |-> FALSE,
                            saw_committed |-> Range(pm.files) = files_table[pm.session_id]]
               /\ pm' = IdlePm
          ELSE /\ pm' = [pc |-> "run", session_id |-> pm.session_id,
                         message |-> pm.message, files |-> pm.files,
                         held |-> held, backend_up |-> redis_up]
               /\ UNCHANGED <<messages, reply>>
    /\ UNCHANGED <<redis, redis_up, files_table, analyses, req, overlap>>
    /\ UNCHANGED <<graphVars, rateVars>>

\* process_message runs the workflow: run_analysis_sync returns a
\* terminal state
RunWorkflow ==
    /\ pm.pc = "run"
    /\ \E result \in WorkflowResults :
         pm' = [pc |-> "save", session_id |-> pm.session_id,
                message |-> pm.message, files |-> pm.files, held |-> pm.held,
                backend_up |-> pm.backend_up, result |-> result]
    /\ UNCHANGED <<redis, redis_up, files_table, reply, messages, analyses, req, overlap>>
    /\ UNCHANGED <<graphVars, rateVars>>

\* a step after the run that caches the result only when the run left no
\* error
StoreAnalysisSuccessOnly ==
    /\ pm.pc = "save"
    /\ analyses' = analyses + 1
    /\ LET result == [final_response |-> pm.result.final_response,
                      explanation |-> pm.result.explanation,
                      errors |-> pm.result.errors,
                      analysis_id |-> analyses']
           key == _analysis_key(pm.session_id, _hash_query(pm.message, pm.files))
       IN /\ redis' = IF pm.result.errors = <<>>
                       THEN cache_set(redis, redis_up, key, result)
                       ELSE redis
          /\ messages' = Append(messages,
                [role |-> "assistant", content |-> ResponseText(result)])
          /\ reply' = [status |-> "success", response |-> ResponseText(result),
                       analysis_id |-> analyses', cached |-> FALSE,
                       held |-> pm.held, backend_up |-> pm.backend_up,
                       ran |-> TRUE, saw_committed |-> Range(pm.files) = files_table[pm.session_id]]
    /\ pm' = IdlePm
    /\ UNCHANGED <<redis_up, files_table, req, overlap>>
    /\ UNCHANGED <<graphVars, rateVars>>

\* process_message after the run: the analysis row is saved, the result
\* is cached under the key of the earlier lookup and the answer is returned
StoreAnalysis ==
    /\ pm.pc = "save"
    /\ analyses' = analyses + 1
    /\ LET result == [final_response |-> pm.result.final_response,
                      explanation |-> pm.result.explanation,
                      errors |-> pm.result.errors,
                      analysis_id |-> analyses']
           key == _analysis_key(pm.session_id, _hash_query(pm.message, pm.files))
       IN /\ redis' = cache_set(redis, redis_up, key, result)
          /\ messages' = Append(messages,
                [role |-> "assistant", content |-> ResponseText(result)])
          /\ reply' = [status |-> "success", response |-> ResponseText(result),
                       analysis_id |-> analyses', cached |-> FALSE,
                       held |-> pm.held, backend_up |-> pm.backend_up,
                       ran |-> TRUE, saw_committed |-> Range(pm.files) = files_table[pm.session_id]]
    /\ pm' = IdlePm
    /\ UNCHANGED <<redis_up, files_table, req, overlap>>
    /\ UNCHANGED <<graphVars, rateVars>>

IdleReq == [pc |-> "idle"]

\* upload_file up to its cache invalidation: process_upload has flushed
\* the new row inside the request's transaction, not yet committed
UploadFile(session_id, file_id) ==
    /\ req.pc = "idle"
    /\ file_id \notin files_table[session_id]
    /\ req' = [pc |-> "invalidate", kind |-> "upload",
               session_id |-> session_id, file_id |-> file_id]
    /\ overlap' = (overlap \/ pm.pc # "idle")
    /\ UNCHANGED <<redis, redis_up, files_table, pm, reply, messages, analyses>>
    /\ UNCHANGED <<graphVars, rateVars>>

\* delete_file up to its cache invalidation: FileService.delete_file has
\* deleted the row and committed
DeleteFile(session_id, file_id) ==
    /\ req.pc = "idle"
    /\ file_id \in files_table[session_id]
    /\ files_table' = [files_table EXCEPT ![session_id] = @ \ {file_id}]
    /\ req' = [pc |-> "invalidate", kind |-> "delete",
               session_id |-> session_id, file_id |-> file_id]
    /\ overlap' = (overlap \/ pm.pc # "idle")
    /\ UNCHANGED <<redis, redis_up, pm, reply, messages, analyses>>
    /\ UNCHANGED <<graphVars, rateVars>>

\* cache_service.invalidate_session_files(session_id) of either request;
\* the delete request has nothing left to commit and is done
InvalidateCache ==
    /\ req.pc = "invalidate"
    /\ redis' = invalidate_session_files(redis, redis_up, req.session_id)
    /\ req' = IF req.kind = "upload" THEN [req EXCEPT !.pc = "commit"] ELSE IdleReq
    /\ UNCHANGED <<redis_up, files_table, pm, reply, messages, analyses, overlap>>
    /\ UNCHANGED <<graphVars, rateVars>>

\* get_db commits the upload's transaction once the handler has returned
CommitUpload ==
    /\ req.pc = "commit"
    /\ files_table' = [files_table EXCEPT ![req.session_id] = @ \cup {req.file_id}]
    /\ req' = IdleReq
    /\ UNCHANGED <<redis, redis_up, pm, reply, messages, analyses, overlap>>
    /\ UNCHANGED <<graphVars, rateVars>>

\* the cache backend becomes unreachable, or reachable again
BackendChanges ==
    /\ redis_up' = ~redis_up
    /\ UNCHANGED <<redis, files_table, pm, reply, messages, analyses, req, overlap>>
    /\ UNCHANGED <<graphVars, rateVars>>

\* the time to live of an entry runs out
Expire(key) ==
    /\ key \in DOMAIN redis
    /\ redis' = [k \in DOMAIN redis \ {key} |-> redis[k]]
    /\ UNCHANGED <<redis_up, files_table, pm, reply, messages, analyses, req, overlap>>
    /\ UNCHANGED <<graphVars, rateVars>>

ChatNext ==
    \/ \E sid \in Sessions, q \in ChatQueries : ProcessMessage(sid, q)
    \/ ReadFiles
    \/ CacheFiles
    \/ AnswerNoFiles
    \/ LookupAnalysis
    \/ RunWorkflow
    \/ StoreAnalysis
    \/ \E sid \in Sessions, f \in FileIds : UploadFile(sid, f)
    \/ \E sid \in Sessions, f \in FileIds : DeleteFile(sid, f)
    \/ InvalidateCache
    \/ CommitUpload
    \/ BackendChanges
    \/ \E key \in DOMAIN redis : Expire(key)

ChatSpec == Init /\ [][ChatNext]_vars

(***************************************************************************)
(* Rate limiter  (backend/app/core/cache.py, tasks/cleanup.py)             *)
(***************************************************************************)
\* check_rate_limit calls are modelled while the counter, and the number
\* of calls since the window began, are below this
MaxCount == 4

\* the limit and window_seconds arguments of check_rate_limit
RateLimit == 2
WindowSeconds == 2

\* concurrent requests of one identifier
Callers == {"a", "b"}

Max(a, b) == IF a > b THEN a ELSE b

\* an answer that already refuses the call that reaches the limit
RateAnswerBelowLimit(current) ==
    [allowed |-> current < RateLimit, remaining |-> Max(0, RateLimit - current)]

\* what check_rate_limit returns for the post-increment value `current`
RateAnswer(current) ==
    [allowed |-> current <= RateLimit, remaining |-> Max(0, RateLimit - current)]

\* what check_rate_limit returns when the backend is not connected or an
\* operation raised
RateAnswerOnFailure == [allowed |-> TRUE, remaining |-> RateLimit]

IdleCaller == [pc |-> "idle"]

NoAnswer == [allowed |-> FALSE, remaining |-> -1, nth |-> 0]

\* history kept next to an answer: nth is the call's position among the
\* calls that incremented the counter since the key was created (0 when
\* the call never reached the counter)
Answered(c, answer, nth) ==
    rl_result' = [rl_result EXCEPT ![c] =
                    [allowed |-> answer.allowed, remaining |-> answer.remaining,
                     nth |-> nth]]

\* check_rate_limit up to the await that follows INCR: the fail-open
\* return when the backend is unreachable, else the increment
RateIncrement(c) ==
    /\ rl_pc[c].pc = "idle"
    /\ ratelimit.count < MaxCount
    /\ rl_hist.calls < MaxCount
    /\ IF ~redis_up
       THEN /\ Answered(c, RateAnswerOnFailure, 0)
            /\ rl_hist' = [rl_hist EXCEPT !.disturbed = TRUE]
            /\ UNCHANGED <<ratelimit, rl_pc>>
       ELSE /\ ratelimit' = [ratelimit EXCEPT !.count = @ + 1]
            /\ rl_hist' = [rl_hist EXCEPT
                  !.calls = @ + 1,
                  !.granted = IF ratelimit'.count <= RateLimit THEN @ + 1 ELSE @]
            /\ IF ratelimit'.count = 1
               THEN /\ rl_pc' = [rl_pc EXCEPT ![c] =
                          [pc |-> "expire", current |-> 1, nth |-> rl_hist'.calls]]
                    /\ UNCHANGED rl_result
               ELSE /\ Answered(c, RateAnswer(ratelimit'.count), rl_hist'.calls)
                    /\ UNCHANGED rl_pc
    /\ UNCHANGED chatVars
    /\ UNCHANGED graphVars

\* check_rate_limit after INCR returned 1: EXPIRE sets the window on the
\* key if the key is still there; when EXPIRE raises the call fails open
RateExpire(c) ==
    /\ rl_pc[c].pc = "expire"
    /\ IF redis_up
       THEN /\ ratelimit' = IF ratelimit.count > 0
                            THEN [ratelimit EXCEPT !.ttl = WindowSeconds]
                            ELSE ratelimit
            /\ Answered(c, RateAnswer(rl_pc[c].current), rl_pc[c].nth)
            /\ UNCHANGED rl_hist
       ELSE /\ Answered(c, RateAnswerOnFailure, 0)
            /\ rl_hist' = [rl_hist EXCEPT !.disturbed = TRUE]
            /\ UNCHANGED ratelimit
    /\ rl_pc' = [rl_pc EXCEPT ![c] = IdleCaller]
    /\ UNCHANGED chatVars
    /\ UNCHANGED graphVars

\* the request is cancelled while check_rate_limit awaits EXPIRE
RateCancelled(c) ==
    /\ rl_pc[c].pc = "expire"
    /\ rl_pc' = [rl_pc EXCEPT ![c] = IdleCaller]
    /\ rl_hist' = [rl_hist EXCEPT !.disturbed = TRUE]
    /\ UNCHANGED <<ratelimit, rl_result>>
    /\ UNCHANGED chatVars
    /\ UNCHANGED graphVars

\* one second passes: a key whose time to live runs out is removed
Tick ==
    /\ ratelimit.ttl > 0
    /\ IF ratelimit.ttl = 1
       THEN /\ ratelimit' = [count |-> 0, ttl |-> 0]
            /\ rl_hist' = [rl_hist EXCEPT !.calls = 0, !.granted = 0]
       ELSE /\ ratelimit' = [ratelimit EXCEPT !.ttl = @ - 1]
            /\ UNCHANGED rl_hist
    /\ UNCHANGED <<rl_pc, rl_result>>
    /\ UNCHANGED chatVars
    /\ UNCHANGED graphVars

\* _cleanup_cache_async: delete_pattern("ratelimit:*") removes the key
CleanupCache ==
    /\ redis_up
    /\ ratelimit.count > 0
    /\ ratelimit' = [count |-> 0, ttl |-> 0]
    /\ rl_hist' = [rl_hist EXCEPT !.disturbed = TRUE]
    /\ UNCHANGED <<rl_pc, rl_result>>
    /\ UNCHANGED chatVars
    /\ UNCHANGED graphVars

RateNext ==
    \/ \E c \in Callers : RateIncrement(c)
    \/ \E c \in Callers : RateExpire(c)
    \/ \E c \in Callers : RateCancelled(c)
    \/ Tick
    \/ CleanupCache
    \/ BackendChanges

RateSpec == Init /\ [][RateNext]_vars

(***************************************************************************)
(* return_chat as a function of the state it is given                      *)
(***************************************************************************)
\* the values of the keys return_chat reads
ExplanationInputs ==
    { None, Some(<<>>), Some(<<"**Key Finding:** revenue rose">>) }

ErrorsInputs ==
    { <<>>, <<"Empty query provided">>,
      <<"Empty query provided", "Explanation generation error">> }

ResultDataInputs ==
    { None,
      Some([type |-> "dataframe", rows |-> 0]),
      Some([type |-> "dataframe", rows |-> 1]),
      Some([type |-> "dataframe", rows |-> 7]),
      Some([type |-> "dict", rows |-> 0]),
      Some([type |-> "list", rows |-> 0]) }

RecommendationsInputs == { <<>>, <<"Consider exploring related metrics">> }

\* return_chat is called on a state holding the given values: st becomes
\* that state with the node's update folded in, or stays the state given
\* when the node raises; exc is the exception
ReturnChatOn(explanation, errors, result_data, recommendations) ==
    /\ pc = "idle"
    /\ LET s == [create_initial_state("s1", <<>>, <<>>, <<>>) EXCEPT
                    !.explanation = explanation,
                    !.errors = errors,
                    !.result_data = result_data,
                    !.recommendations = recommendations]
       IN /\ exc' = return_chat_raises(s)
          /\ st' = IF IsNone(return_chat_raises(s))
                   THEN ApplyWrites(s, return_chat(s))
                   ELSE s
    /\ UNCHANGED <<pc, call, ret, saved, chunk, trace, ran, accepted>>
    /\ UNCHANGED <<chatVars, rateVars>>

ReturnChatNext ==
    \E explanation \in ExplanationInputs, errors \in ErrorsInputs,
       result_data \in ResultDataInputs, recommendations \in RecommendationsInputs :
        ReturnChatOn(explanation, errors, result_data, recommendations)

ReturnChatSpec == Init /\ [][ReturnChatNext]_vars

(***************************************************************************)
(* trend_analysis as a function of the state it is given                   *)
(***************************************************************************)
\* the values of the keys trend_analysis reads
IntentInputs == { None, Some("query"), Some("aggregate"), Some("trend"), Some("compare") }

TrendRecommendationsInputs ==
    { <<>>, <<"Try a simpler query first">>,
      <<"Rec 1", "Rec 2", "Rec 3", "Rec 4">> }

TrendResultInputs == { None, Some([type |-> "dict", rows |-> 0]) }

\* answers of the trend oracle the node is tried with
TrendAnswerInputs == TrendAnswers \cup { Some(<<"Action 1">>), Some(<<>>) }

\* trend_analysis is called on a state holding the given values and the
\* oracle answers o: st is the state given, chunk the update returned
TrendAnalysisOn(intent, query, recommendations, result_data, o) ==
    /\ pc = "idle"
    /\ st' = [create_initial_state("s1", query, <<>>, <<>>) EXCEPT
                 !.intent = intent,
                 !.recommendations = recommendations,
                 !.result_data = result_data]
    /\ chunk' = [node |-> "trend_analysis", update |-> trend_analysis(st', o),
                 oracle |-> o]
    /\ UNCHANGED <<pc, call, exc, ret, saved, trace, ran, accepted>>
    /\ UNCHANGED <<chatVars, rateVars>>

TrendNext ==
    \E intent \in IntentInputs, query \in Queries,
       recommendations \in TrendRecommendationsInputs,
       result_data \in TrendResultInputs, o \in TrendAnswerInputs :
        TrendAnalysisOn(intent, query, recommendations, result_data, o)

TrendSpec == Init /\ [][TrendNext]_vars

(***************************************************************************)
(* set_analysis_result followed by get_analysis_result                     *)
(***************************************************************************)
\* the arguments the two calls are tried with
KeySessions == {"s1", "s2"}

KeyQueries == {"total revenue", " total revenue ", "revenue trend"}

KeyFileIds == UNION { Orders(S) : S \in (SUBSET FileIds) \ {{}} }

\* the result that is stored
StoredResult ==
    [final_response |-> Some(<<"**Key Finding:** revenue rose">>), analysis_id |-> 1]

\* set_analysis_result(sid, query, ids, StoredResult) on an empty store,
\* then get_analysis_result(sid2, query2, ids2): redis is the store after
\* the first call, req holds the arguments and what the second returned
SetThenGet(sid, query, ids, sid2, query2, ids2) ==
    /\ req.pc = "idle" /\ pm.pc = "idle"
    /\ redis' = cache_set(<<>>, TRUE,
                          _analysis_key(sid, _hash_query(query, ids)), StoredResult)
    /\ req' = [pc |-> "idle",
               stored |-> [session_id |-> sid, query |-> query, file_ids |-> ids],
               asked  |-> [session_id |-> sid2, query |-> query2, file_ids |-> ids2],
               result |-> cache_get(redis', TRUE,
                                    _analysis_key(sid2, _hash_query(query2, ids2)))]
    /\ UNCHANGED <<redis_up, files_table, pm, reply, messages, analyses, overlap>>
    /\ UNCHANGED <<graphVars, rateVars>>

CacheKeyNext ==
    \E sid \in KeySessions, query \in KeyQueries, ids \in KeyFileIds,
       sid2 \in KeySessions, query2 \in KeyQueries, ids2 \in KeyFileIds :
        SetThenGet(sid, query, ids, sid2, query2, ids2)

CacheKeySpec == Init /\ [][CacheKeyNext]_vars

Next ==
    \/ \E sid \in Sessions, q \in Queries, f \in FileLists, llm \in BOOLEAN :
         Invoke(sid, q, f, llm)
    \/ IngestQuery
    \/ ParseFiles
    \/ RetrieveContext
    \/ AnalyzeIntent
    \/ PlanAnalysis
    \/ AlignTimeseries
    \/ GenerateCode
    \/ ValidateCode
    \/ IncrementRetry
    \/ ExecuteCode
    \/ TrendAnalysis
    \/ ExplainResult
    \/ HandleError
    \/ ReturnChat
    \/ ReturnSync
    \/ ReturnAsync

Spec == Init /\ [][Next]_vars


\* the graph runner completes every superstep it starts, and the entry
\* point returns once the graph has stopped
GraphStep ==
    \/ IngestQuery \/ ParseFiles \/ RetrieveContext \/ AnalyzeIntent
    \/ PlanAnalysis \/ AlignTimeseries \/ GenerateCode \/ ValidateCode
    \/ IncrementRetry \/ ExecuteCode \/ TrendAnalysis \/ ExplainResult
    \/ HandleError \/ ReturnChat

FairSpec ==
    Init /\ [][Next]_vars /\ WF_vars(GraphStep) /\ WF_vars(ReturnSync \/ ReturnAsync)

(***************************************************************************)
(* Properties                                                              *)
(***************************************************************************)
Count(seq, x) == Cardinality({i \in 1..Len(seq) : seq[i] = x})

Last(seq) == seq[Len(seq)]

\* an entry point has handed its outcome to the caller
Returned == pc = "idle" /\ ret.status # "none"

IsPath(h) == \A i \in 1..(Len(h) - 1) : <<h[i], h[i + 1]>> \in Edges

RetryCycle == {"generate_code", "validate_code", "increment_retry"}

\* C2: every run terminates; the only nodes a run repeats are those of the
\* cycle validate_code -> increment_retry -> generate_code, generate_code
\* runs at most 3 times and increment_retry at most 2 times
C2_BoundedRetries ==
    /\ Count(trace, "generate_code") <= 3
    /\ Count(trace, "increment_retry") <= 2
    /\ \A i, j \in 1..Len(trace) :
         (i < j /\ trace[i] = trace[j]) => trace[i] \in RetryCycle

\* C2: every run terminates, that is, every invocation that was started
\* is handed back to its caller, and its retries stay within the bounds
C2_Terminates ==
    /\ []C2_BoundedRetries
    /\ (pc # "idle") ~> (pc = "idle")


\* C1: every invocation ends with return_chat as the last node it ran, and
\* runs return_chat exactly once
C1_OneResponsePerInvocation ==
    Returned =>
        /\ trace # <<>>
        /\ Last(trace) = "return_chat"
        /\ Count(trace, "return_chat") = 1

\* C3: the node_history of the terminal state handed to the caller is
\* non-empty, starts at ingest_query and follows declared edges only
C3_HistoryIsPath ==
    (Returned /\ ret.status = "returned") =>
        /\ ret.value.node_history # <<>>
        /\ Head(ret.value.node_history) = "ingest_query"
        /\ IsPath(ret.value.node_history)

\* C4: an invocation starts from empty node_history and errors and from
\* retry_count 0, whatever the thread's earlier invocations left behind,
\* and its terminal node_history holds only nodes of this invocation
C4_FreshState ==
    /\ (pc = "ingest_query" =>
          st.node_history = <<>> /\ st.errors = <<>> /\ st.retry_count = 0)
    /\ ((Returned /\ ret.status = "returned" /\ ret.entry = "sync" /\ IsNone(exc))
          => ret.value.node_history = trace)

\* C5: no exception ever leaves a node: the graph never stops on a raise
C5_NoNodeRaises == pc # "raised" /\ IsNone(exc)

C2_Witness ==
    /\ Returned
    /\ Count(trace, "generate_code") = 3
    /\ Count(trace, "increment_retry") = 2

\* C7: whatever execute_code hands to exec() was accepted by the
\* validate_code that ran just before: code_valid holds, no denylisted
\* pattern occurs in it case-insensitively, and it compiles
C7_ExecutesOnlyValidated ==
    ~IsNone(ran) =>
        /\ Val(ran).code_valid
        /\ \A i \in 1..Len(FORBIDDEN_PATTERNS) :
             ~Contains(LowerCode(Val(ran).code), LowerPattern(FORBIDDEN_PATTERNS[i]))
        /\ Compiles(Val(ran).code)
        /\ accepted = Some(Val(ran).code)

\* code was executed after an earlier attempt had been rejected
C7_Witness ==
    /\ ~IsNone(ran)
    /\ Count(trace, "increment_retry") > 0
    /\ Contains(Val(ran).code, "pd.")

\* the terminal state of a run_analysis_sync call during which execute_code ran
ExecutedTerminal ==
    /\ Returned /\ ret.entry = "sync"
    /\ "execute_code" \in Range(trace)

SuccessfulResult(t) == ~IsNone(t.result_data) /\ ExecutionSucceeded(t)

\* C8 as stated: exactly one of {successful result_data, non-empty errors}
C8_ExactlyOne ==
    ExecutedTerminal =>
        (SuccessfulResult(ret.value) <=> ret.value.errors = <<>>)

\* C8 as amended: result_data is present exactly when execution succeeded,
\* and errors is non-empty whenever the executed code raised
C8_ResultIffSuccess ==
    ExecutedTerminal =>
        /\ ~IsNone(ret.value.result_data) <=> ExecutionSucceeded(ret.value)
        /\ (~IsNone(ran) /\ Val(ran).outcome = "raise") => ret.value.errors # <<>>

\* the executed code raised in a run that had recorded no error before
C8_Witness ==
    /\ ExecutedTerminal
    /\ ~IsNone(ran) /\ Val(ran).outcome = "raise"
    /\ ret.value.errors = <<"Execution error: FileNotFoundError">>

\* fields of the terminal state that callers consume
TerminalFields ==
    { "final_response", "intent", "operation_type", "files_to_use",
      "result_data", "recommendations", "node_history", "errors",
      "generated_code", "code_valid" }

\* C9: run_analysis hands its caller the same fields with the same values
\* as run_analysis_sync does for the same run
C9_SameTerminalShape ==
    (Returned /\ ret.entry = "async" /\ IsNone(exc)) =>
        /\ ret.status = "returned"
        /\ TerminalFields \subseteq DOMAIN ret.value
        /\ \A f \in TerminalFields :
             ret.value[f] = run_analysis_sync_result(st, call, exc)[f]

\* process_message has answered a call whose lookup found the store
\* holding an entry for the call's session, query and set of file ids
AnsweredWithEntryHeld ==
    /\ pm.pc = "idle" /\ reply.status = "success"
    /\ ~IsNone(reply.held)

\* C10 as stated: a call made while the cache holds an unexpired entry for
\* its session, query and file set returns the response of the cached
\* entry and does not run the workflow
C10_CachedSecondCall ==
    AnsweredWithEntryHeld =>
        /\ ~reply.ran
        /\ reply.cached
        /\ reply.response = ResponseText(Val(reply.held))

\* C10 as amended: when the cache backend answers the lookup, the call
\* does not run the workflow and returns the response and the analysis
\* id of the cached entry
C10_CachedWhenReadable ==
    (AnsweredWithEntryHeld /\ reply.backend_up) =>
        /\ ~reply.ran
        /\ reply.cached
        /\ reply.response = ResponseText(Val(reply.held))
        /\ reply.analysis_id = Val(reply.held).analysis_id

\* the second of two calls was answered from the entry the first one stored
C10_Witness ==
    /\ AnsweredWithEntryHeld /\ reply.backend_up
    /\ reply.cached /\ ~reply.ran
    /\ Len(messages) = 4 /\ analyses = 1
    /\ messages[1].content = messages[3].content

\* process_message has answered a call during which no upload or delete
\* request was in progress: every change of the session's file set was
\* complete before the call began
AnsweredAfterChanges ==
    /\ pm.pc = "idle" /\ reply.status = "success"
    /\ ~overlap

\* C11: a call made after the upload and delete requests of the session
\* completed works on the committed file set, so a result cached for an
\* earlier file set is not what it answers with
C11_FreshAfterFileChange ==
    AnsweredAfterChanges => reply.saw_committed

\* the analysis entries the store holds for a session
AnalysisKeys(store, session_id) ==
    { k \in DOMAIN store : k[1] = "analysis" /\ k[2] = session_id }

C14_CounterHasExpiry ==
    (ratelimit.count >= 1 /\ \A c \in Callers : rl_pc[c].pc # "expire")
        => ratelimit.ttl > 0

\* C15: the counter goes down only when its window expires, and at most
\* `limit` of the calls counted in one window are allowed
C15_LimitPerWindow ==
    [][/\ ratelimit'.count < ratelimit.count => Tick
       /\ rl_hist'.granted <= RateLimit]_vars

\* a key and a value the cache operations are tried with in every state
ProbeKeys == DOMAIN redis \cup {_file_key(sid) : sid \in Sessions}
ProbeValue == <<1>>

\* C16: with the backend unreachable or raising, get returns no value, set
\* returns false, delete_pattern returns 0 (none of them touching the
\* store), check_rate_limit returns (allowed, limit), and a process_message
\* call whose lookup met such a backend ran the workflow and was not
\* answered from the cache
C16_FailOpen ==
    /\ \A k \in ProbeKeys :
         /\ cache_get(redis, FALSE, k) = None
         /\ cache_set_returns(FALSE) = FALSE
         /\ cache_set(redis, FALSE, k, ProbeValue) = redis
    /\ \A sid \in Sessions :
         /\ delete_pattern_returns(redis, FALSE, sid) = 0
         /\ invalidate_session_files(redis, FALSE, sid) = redis
    /\ RateAnswerOnFailure = [allowed |-> TRUE, remaining |-> RateLimit]
    /\ (/\ reply.status = "success"
        /\ "analysis_id" \in DOMAIN reply
        /\ ~reply.backend_up) => (reply.ran /\ ~reply.cached)

\* the cache held an entry for the question, the backend was unreachable
\* at the lookup, and the workflow ran
C16_Witness ==
    /\ reply.status = "success"
    /\ "analysis_id" \in DOMAIN reply
    /\ ~reply.backend_up
    /\ ~IsNone(reply.held)
    /\ reply.ran

\* C17: two runs with different queries are independent: whatever the
\* other run did before, a run starts from the state it would start from
\* alone (so that, its nodes being functions of the state and of the
\* oracle's answers, it ends as it would alone)
C17_RunsIndependent ==
    [][(/\ pc = "idle" /\ pc' = "ingest_query"
        /\ ret.status # "none"
        /\ call'.user_query # call.user_query)
          => st' = initial_state_of(call')]_vars

\* the nodes that call the oracle whenever they run
AlwaysConsultOracle == {"analyze_intent", "plan_analysis", "generate_code"}

\* the error parse_files records for an empty available_files
NoFilesError == "No files available for analysis"

\* a line of the text lists that error, as handle_error or return_chat
\* would list it
NamesNoFiles(text) ==
    \E i \in 1..Len(text) : text[i] \in {"* " \o NoFilesError, "- " \o NoFilesError}

\* C18: a run on an empty available_files never runs a node that calls the
\* oracle, and hands back a state without result_data whose final_response
\* reports that there are no files
C18_NoFilesShortCircuit ==
    (pc # "idle" /\ call.available_files = <<>>) =>
        /\ \A n \in AlwaysConsultOracle : Count(trace, n) = 0
        /\ pc = END =>
              /\ IsNone(st.result_data)
              /\ Truthy(st.final_response)
              /\ NamesNoFiles(Val(st.final_response))

\* the code text contains a denylisted operation
Denylisted(code) == ForbiddenFound(code) # <<>>

\* the state holds a generated code text with a denylisted operation
HoldsDenylisted(s) ==
    Truthy(s.generated_code) /\ Denylisted(Val(s.generated_code))

\* the errors name a forbidden pattern
HasForbiddenError(errors) ==
    \E i \in 1..Len(errors) :
        \E j \in 1..Len(FORBIDDEN_PATTERNS) :
            errors[i] = ForbiddenError(FORBIDDEN_PATTERNS[j])

\* C19: validate_code rejects every code text with a denylisted operation
\* with a forbidden-pattern error and never sends it to execute_code: the
\* run regenerates while fewer than 2 retries were made and else goes to
\* handle_error, which it enters after exactly 3 generate_code and 2
\* increment_retry and no execute_code, and return_chat follows
C19_DenylistedNeverExecuted ==
    [][/\ (pc = "validate_code" /\ HoldsDenylisted(st)) =>
            /\ ~st'.code_valid
            /\ HasForbiddenError(st'.validation_errors)
            /\ pc' = IF st.retry_count < 2 THEN "increment_retry" ELSE "handle_error"
       /\ (pc = "validate_code" /\ pc' = "handle_error") =>
            /\ Count(trace', "generate_code") = 3
            /\ Count(trace', "increment_retry") = 2
            /\ Count(trace', "execute_code") = 0
       /\ (pc = "increment_retry") => pc' = "generate_code"
       /\ (pc = "handle_error") => pc' = "return_chat"
       /\ (pc = "return_chat" /\ Count(trace, "execute_code") = 0) => pc' = END]_vars

\* a run whose third code text was rejected for a denylisted operation
\* has gone through handle_error and return_chat without execute_code
C19_Witness ==
    /\ pc = END
    /\ HoldsDenylisted(st)
    /\ HasForbiddenError(st.validation_errors)
    /\ Count(trace, "generate_code") = 3
    /\ Count(trace, "increment_retry") = 2
    /\ Count(trace, "execute_code") = 0
    /\ Count(trace, "handle_error") = 1
    /\ Last(trace) = "return_chat"

\* the error text execute_code reports when `result` is unbound
MissingResultError == "No result variable defined"

\* the last run executed validated code that did not raise and never
\* bound `result`
RanWithoutResult ==
    /\ ~IsNone(ran)
    /\ Val(ran).outcome = "none"
    /\ ~BindsResult(Val(ran).code)

\* a line of the text names the missing result variable
NamesMissingResult(text) ==
    \E i \in 1..Len(text) :
        text[i] \in {"* " \o MissingResultError, "- " \o MissingResultError}

\* C20: when validated code runs without raising and never binds `result`,
\* execute_code reports success=false with the missing-result error text,
\* handle_error is the next node, and the final_response of the terminal
\* state is non-empty and lists that cause
C20_MissingResultReported ==
    (RanWithoutResult /\ pc = END) =>
        /\ ~Val(st.execution_result).success
        /\ Val(st.execution_result).error = Some(MissingResultError)
        /\ \E i \in 1..(Len(trace) - 1) :
              trace[i] = "execute_code" /\ trace[i + 1] = "handle_error"
        /\ Truthy(st.final_response)
        /\ NamesMissingResult(Val(st.final_response))

\* C21: retry_count is 0 when a run starts, changes only in increment_retry
\* and only by +1, never exceeds 2, and validate_code hands over to
\* handle_error only with code_valid = false and retry_count = 2
C21_RetryCount ==
    [][/\ (pc = "idle" /\ pc' = "ingest_query") => st'.retry_count = 0
       /\ (pc # "idle" /\ st'.retry_count # st.retry_count) =>
            (pc = "increment_retry" /\ st'.retry_count = st.retry_count + 1)
       /\ st'.retry_count \in 0..2
       /\ (pc = "validate_code" /\ pc' = "handle_error") =>
            (~st'.code_valid /\ st'.retry_count = 2)]_vars

\* validate_code has just rejected the third code text
C21_Witness ==
    /\ pc = "handle_error"
    /\ Last(trace) = "validate_code"
    /\ ~st.code_valid
    /\ st.retry_count = 2
    /\ Count(trace, "increment_retry") = 2

\* list a is a prefix of list b
IsPrefix(a, b) ==
    /\ Len(a) <= Len(b)
    /\ \A i \in 1..Len(a) : a[i] = b[i]

\* C22: node_history and errors only grow by appending while a run is
\* under way, and the state run_analysis_sync hands to the caller holds
\* every node name and every error the run accumulated, also when the
\* run failed
C22_AppendOnly ==
    [][/\ (pc # "idle" /\ pc' # "idle") =>
            /\ IsPrefix(st.node_history, st'.node_history)
            /\ IsPrefix(st.errors, st'.errors)
       /\ (pc # "idle" /\ pc' = "idle" /\ ret'.entry = "sync") =>
            /\ ret'.status = "returned"
            /\ IsPrefix(st.node_history, ret'.value.node_history)
            /\ IsPrefix(st.errors, ret'.value.errors)]_vars

\* C23: whenever code_valid is true, generated_code is a non-empty text
\* with a statement that assigns `result`, and generate_code never runs
\* (and so never replaces the text) while code_valid is true
C23_ValidCodeProducesResult ==
    [][/\ st'.code_valid =>
            /\ Truthy(st'.generated_code)
            /\ BindsResult(Val(st'.generated_code))
       /\ (pc = "generate_code") => ~st.code_valid]_vars

\* C24: result_data is present only if execution_result.success is true,
\* in every state of a run and in the state run_analysis_sync returns
C24_ResultOnlyOnSuccess ==
    /\ ~IsNone(st.result_data) =>
          (~IsNone(st.execution_result) /\ Val(st.execution_result).success)
    /\ (Returned /\ ret.entry = "sync" /\ ~IsNone(ret.value.result_data)) =>
          (~IsNone(ret.value.execution_result)
             /\ Val(ret.value.execution_result).success)

\* a run that executed its code and was handed back with result_data
C24_Witness ==
    /\ Returned /\ ret.entry = "sync"
    /\ ~IsNone(ret.value.result_data)
    /\ Val(ret.value.execution_result).success
    /\ Count(trace, "execute_code") = 1

\* the nodes the run went through after its (first) execute_code
AfterExecution ==
    SubSeq(trace, FirstIndex(trace, {"execute_code"}) + 1, Len(trace))

\* the run has come to its end, by reaching END or by a raise
RunEnded == pc \in {END, "raised"}

\* C25: execute_code runs at most once per run and generate_code never
\* after it; a run that executed code ends having gone through exactly
\* trend_analysis, explain_result, return_chat when the execution
\* succeeded and exactly handle_error, return_chat when it did not
C25_ExecutionNotRetried ==
    /\ Count(trace, "execute_code") <= 1
    /\ Count(trace, "execute_code") = 1 =>
          /\ Count(AfterExecution, "generate_code") = 0
          /\ RunEnded =>
                AfterExecution =
                    IF Val(st.execution_result).success
                    THEN <<"trend_analysis", "explain_result", "return_chat">>
                    ELSE <<"handle_error", "return_chat">>

\* a run whose execution failed ended through handle_error and return_chat
C25_Witness ==
    /\ pc = END
    /\ Count(trace, "execute_code") = 1
    /\ ~Val(st.execution_result).success
    /\ AfterExecution = <<"handle_error", "return_chat">>
    /\ Count(trace, "generate_code") = 1

\* C26: with the provider available, the step out of plan_analysis never
\* fails, and it leads to align_timeseries exactly when operation_type is
\* cross_table or temporal and the plan asks for time alignment, else to
\* generate_code
C26_AlignRouting ==
    [][(pc = "plan_analysis" /\ call.llm) =>
          /\ pc' # "raised"
          /\ pc' = IF /\ st'.operation_type \in {Some("cross_table"), Some("temporal")}
                      /\ PlanAligns(st')
                   THEN "align_timeseries"
                   ELSE "generate_code"]_vars

\* the plan is the default plan plan_analysis falls back to
IsDefaultPlan(plan) ==
    ~IsNone(plan) /\ Get(Val(plan), "reasoning", "") = "Default plan"

\* C27: with the provider available analyze_intent does not fail: when its
\* oracle call fails it records the failure in errors and falls back to
\* intent query, operation_type single_table and the first available
\* file; when plan_analysis falls back to its default plan it records the
\* failure in errors
C27_OracleFallbacks ==
    [][/\ (pc = "analyze_intent" /\ call.llm) =>
            /\ pc' # "raised"
            /\ st'.errors # st.errors =>
                  /\ st'.errors = Append(st.errors, "Intent analysis error")
                  /\ st'.intent = Some("query")
                  /\ st'.operation_type = Some("single_table")
                  /\ st'.files_to_use = <<st.available_files[1].filename>>
       /\ (pc = "plan_analysis" /\ pc' # "raised" /\ IsDefaultPlan(st'.plan)) =>
            Len(st'.errors) = Len(st.errors) + 1]_vars

\* the entries a handle_error message lists, between its first and its
\* last line
Listed(text) == SubSeq(text, 2, Len(text) - 1)

\* the entries the message has to list for the state's errors
ExpectedEntries(s) ==
    IF s.errors \o s.validation_errors = <<>>
    THEN <<"* An unknown error occurred during analysis">>
    ELSE [i \in 1..(IF Len(s.errors \o s.validation_errors) < 3
                    THEN Len(s.errors \o s.validation_errors) ELSE 3) |->
             "* " \o (s.errors \o s.validation_errors)[i]]

\* C28: handle_error writes one non-empty message to explanation and
\* final_response that lists the first 3 entries of errors followed by
\* validation_errors, or one "unknown error" entry when there is none, and
\* the message is still the final_response when return_chat has run
C28_HandleErrorMessage ==
    [][/\ (pc = "handle_error") =>
            /\ Truthy(st'.final_response)
            /\ st'.explanation = st'.final_response
            /\ Listed(Val(st'.final_response)) = ExpectedEntries(st)
       /\ (pc = "return_chat" /\ Count(trace, "handle_error") = 1) =>
            /\ pc' = END
            /\ st'.final_response = st.final_response
            /\ Listed(Val(st'.final_response)) = ExpectedEntries(st')]_vars

\* a run ended through handle_error with more than 3 causes at hand, of
\* both kinds
C28_Witness ==
    /\ pc = END
    /\ Count(trace, "handle_error") = 1
    /\ st.errors # <<>>
    /\ st.validation_errors # <<>>
    /\ Len(st.errors \o st.validation_errors) > 3
    /\ Len(Listed(Val(st.final_response))) = 3

\* return_chat was applied to the state st holds
ReturnChatApplied == st.current_node = "return_chat" \/ ~IsNone(exc)

ResultIdentifierLines == {"result = df", "result = 1", "result = ("}

\* the code contains an identifier named `result`
HasResultIdentifier(code) ==
    \E i \in 1..Len(code) : code[i] \in ResultIdentifierLines

\* C30: validate_code rejects every code text without an identifier
\* named `result`: a text it accepts binds or references `result`
C30_ValidatedNamesResult ==
    [][(pc = "validate_code" /\ st'.code_valid) =>
          (Truthy(st.generated_code) /\ HasResultIdentifier(Val(st.generated_code)))]_vars

\* C31: validate_code replaces generated_code only when it accepts the
\* code (by the same text or by the text with the import put in front)
\* and leaves it unchanged when it rejects; either way retry_count, errors
\* and execution_result stay as they were and validation_errors holds the
\* errors of this validation alone
C31_ValidateFrame ==
    [][(pc = "validate_code") =>
          /\ pc' # "raised"
          /\ IF st'.code_valid
             THEN /\ Truthy(st.generated_code)
                  /\ st'.generated_code \in
                        { st.generated_code,
                          Some(<<PandasImport>> \o Val(st.generated_code)) }
                  /\ st'.validation_errors = <<>>
             ELSE /\ st'.generated_code = st.generated_code
                  /\ st'.validation_errors =
                        IF Truthy(st.generated_code)
                        THEN ValidationErrorsOf(Val(st.generated_code))
                        ELSE <<"No code generated">>
          /\ st'.retry_count = st.retry_count
          /\ st'.errors = st.errors
          /\ st'.execution_result = st.execution_result]_vars

\* the second validation of a run accepted a text, put the import in
\* front of it, and replaced the errors of the first validation
C31_Witness ==
    /\ pc = "execute_code"
    /\ Count(trace, "validate_code") = 2
    /\ st.code_valid
    /\ st.validation_errors = <<>>
    /\ st.retry_count = 1
    /\ Head(Val(st.generated_code)) = PandasImport

\* trend_analysis was applied to the state st holds
TrendApplied == chunk.node = "trend_analysis" /\ "oracle" \in DOMAIN chunk

\* the first n entries of a list
FirstEntries(list, n) == SubSeq(list, 1, IF Len(list) < n THEN Len(list) ELSE n)

\* C32: when trend_analysis runs (trend or compare intent, or a trend
\* keyword in the query, on a result) and its oracle answers,
\* recommendations becomes the first 5 entries of the existing
\* recommendations followed by the oracle's actions; when the intent is
\* neither trend nor compare and no keyword matches, the node passes
\* through with trend_insights unset and recommendations untouched
C32_TrendRecommendations ==
    TrendApplied =>
        /\ (/\ \/ st.intent \in {Some("trend"), Some("compare")}
                \/ MatchesTrendKeyword(st.user_query)
             /\ ~IsNone(st.result_data)
             /\ ~IsNone(chunk.oracle)) =>
               /\ "recommendations" \in DOMAIN chunk.update
               /\ chunk.update.recommendations =
                     FirstEntries(st.recommendations \o Val(chunk.oracle), 5)
        /\ (/\ st.intent \notin {Some("trend"), Some("compare")}
             /\ ~MatchesTrendKeyword(st.user_query)) =>
               /\ chunk.update.trend_insights = None
               /\ "recommendations" \notin DOMAIN chunk.update

\* four recommendations were there and the oracle answered six actions:
\* the four and the first action are kept
C32_Witness ==
    /\ TrendApplied
    /\ Len(st.recommendations) = 4
    /\ ~IsNone(chunk.oracle) /\ Len(Val(chunk.oracle)) = 6
    /\ "recommendations" \in DOMAIN chunk.update
    /\ chunk.update.recommendations = st.recommendations \o <<"Action 1">>

\* C33: during a run session_id, available_files and chat_history keep
\* the values the caller gave, and user_query changes in ingest_query
\* only, which writes the trimmed query when that is not empty
C33_InputsReadOnly ==
    [][(pc' # "idle") =>
          /\ st'.session_id = call'.session_id
          /\ st'.available_files = call'.available_files
          /\ st'.chat_history = call'.chat_history
          /\ pc = "idle" => st'.user_query = call'.user_query
          /\ pc = "ingest_query" =>
                st'.user_query = IF Strip(st.user_query) = <<>>
                                 THEN st.user_query
                                 ELSE Strip(st.user_query)
          /\ pc \notin {"idle", "ingest_query"} => st'.user_query = st.user_query]_vars

\* a run given files has ended with its query trimmed and its other
\* inputs as given
C33_Witness ==
    /\ pc = END
    /\ st.user_query # call.user_query
    /\ st.user_query = Strip(call.user_query)
    /\ st.available_files = call.available_files
    /\ call.available_files # <<>>
    /\ Count(trace, "execute_code") = 1

\* the query text with surrounding whitespace removed
NormalizedQuery(query) ==
    CASE query = " total revenue " -> "total revenue"
      [] OTHER                     -> query

\* C34: get_analysis_result after set_analysis_result returns the stored
\* value exactly when the session is the same, the queries are equal up
\* to normalization and the file ids are the same set, and nothing
\* otherwise
C34_KeyOfNormalizedQuery ==
    ("asked" \in DOMAIN req) =>
        req.result =
            IF /\ req.asked.session_id = req.stored.session_id
               /\ NormalizedQuery(req.asked.query) = NormalizedQuery(req.stored.query)
               /\ Range(req.asked.file_ids) = Range(req.stored.file_ids)
            THEN Some(StoredResult)
            ELSE None

\* the file list the cache holds for a session, if it holds a non-empty one
CachedFileList(session_id) ==
    IF _file_key(session_id) \in DOMAIN redis
    THEN Some(json_loads(redis[_file_key(session_id)]))
    ELSE None

\* C35: once an upload or delete request has completed, and the
\* process_message call that ran next to it as well, a file list the cache
\* holds for the session is the committed file set
C35_NoStaleFileList ==
    (req.pc = "idle" /\ pm.pc = "idle") =>
        \A sid \in Sessions :
            Truthy(CachedFileList(sid)) =>
                Range(Val(CachedFileList(sid))) = files_table[sid]

\* the run in progress went through node `name`
WentThrough(name) == name \in Range(trace)

\* the actions the trend oracle can recommend
TrendActions == UNION { Range(Val(o)) : o \in TrendAnswers \ {None} }

\* C36: a run that executed its code successfully and ended holds exactly
\* the recommendations explain_result set, so none of the actions
\* trend_analysis merged unless explain_result produced it too
C36_ExplainOverwrites ==
    (pc = END /\ WentThrough("explain_result")) =>
        /\ \E o \in ExplainAnswers :
              st.recommendations = explain_result(st, o).recommendations
        /\ \A a \in TrendActions :
              a \in Range(st.recommendations) =>
                  \E o \in ExplainAnswers \ {None} :
                      a \in Range(ExtractRecommendations(Val(o)))

\* trend_analysis merged its oracle's actions, explain_result ran after it
\* and the run ended without any of them
C36_Witness ==
    /\ pc = END
    /\ WentThrough("trend_analysis") /\ WentThrough("explain_result")
    /\ st.trend_insights = Some([error |-> FALSE])
    /\ Val(st.execution_result).success
    /\ st.recommendations = <<"Raise prices", "Watch churn">>

\* C37: a run that has reached return_chat holds a non-empty
\* recommendations list, whichever of explain_result and handle_error
\* came before it
C37_RecommendationsNonEmpty ==
    (pc = "return_chat" \/ WentThrough("return_chat")) =>
        /\ WentThrough("explain_result") \/ WentThrough("handle_error")
        /\ st.recommendations # <<>>

\* the explanation oracle answered without any bullet and the run went
\* through return_chat with the default recommendation
C37_Witness ==
    /\ WentThrough("return_chat")
    /\ WentThrough("explain_result")
    /\ st.errors = <<>>
    /\ st.recommendations = <<"Consider exploring related metrics">>

\* the key process_message uses for the call in progress
CallKey == _analysis_key(pm.session_id, _hash_query(pm.message, pm.files))

\* the step after a workflow run stores the run's terminal state, whether
\* it holds errors or not, under the key of the call
StoresTerminalState ==
    /\ CallKey \in DOMAIN redis'
    /\ json_loads(redis'[CallKey]).final_response = pm.result.final_response
    /\ json_loads(redis'[CallKey]).explanation = pm.result.explanation
    /\ json_loads(redis'[CallKey]).errors = pm.result.errors
    /\ json_loads(redis'[CallKey]).analysis_id = analyses'

\* the lookup answers from the entry stored under the key of the call,
\* without a run
AnswersFromEntry ==
    /\ pm'.pc = "idle" /\ analyses' = analyses
    /\ reply'.cached /\ ~reply'.ran
    /\ reply'.response = ResponseText(json_loads(redis[CallKey]))

====
